---- MODULE Spec2Model ----
(***************************************************************************)
(* A model of the fwupd command line front ends (fwupdtool: src/fu-tool.c, *)
(* fwupdmgr: src/fu-util.c) and of the fresco-pd and rts54hub foreground   *)
(* plugins.  Each part of the program has its own group of variables, its  *)
(* own initial condition and its own specification; a specification keeps  *)
(* the variables of the other parts at their idle values.                  *)
(***************************************************************************)
EXTENDS Integers, Sequences, FiniteSets, TLC

\* ------------------------------------------------------------------------
\* Bounds of the model
\* ------------------------------------------------------------------------

\* number of fwupdtool processes that run at the same time on one lock file
NProcs == 2

Procs == 1..NProcs

\* ------------------------------------------------------------------------
\* Errors: a GError is a kind (the FwupdError code) and the message prefixes
\* that were put in front of it, outermost first
\* ------------------------------------------------------------------------

NoError == [kind |-> "none", msg |-> <<>>]

Error(kind, text) == [kind |-> kind, msg |-> <<text>>]

\* g_prefix_error / g_propagate_prefixed_error
PrefixError(e, text) == [kind |-> e.kind, msg |-> <<text>> \o e.msg]

VARIABLES
    \* --- fwupdtool processes sharing one lock file and one history database
    cmd,             \* the command each process runs
    pc,              \* where each process is in its command
    lock_fd,         \* FuUtil.lock_fd: "closed" (-1) or "open"
    wrlck,           \* the process holds the F_WRLCK write lock on the lock file
    loaded,          \* fu_engine_get_loaded(self->engine)
    err,             \* the GError the command returned
    lockBusy,        \* the lock was held by another process when this one tried
    histAccess,      \* history database accesses made by the process
    needsActivation  \* the history database holds a needs-activation entry

lockVars == <<cmd, pc, lock_fd, wrlck, loaded, err, lockBusy, histAccess, needsActivation>>

VARIABLES
    \* --- fwupdtool install-blob on one device: tool, engine and plugin
    bpc,             \* position in fu_util_install_blob and in what it calls
    plugin,          \* the plugin that owns the selected device
    prepare_blob,    \* FuUtil.prepare_blob (--prepare)
    cleanup_blob,    \* FuUtil.cleanup_blob (--cleanup)
    berr,            \* the GError being returned
    prepared,        \* fu_engine_composite_prepare succeeded
    cleanedUp,       \* fu_engine_composite_cleanup was invoked
    updateMode,      \* the device was switched into its update mode
    unplugged,       \* the device is no longer on the bus
    waitForReplug,   \* FWUPD_DEVICE_FLAG_WAIT_FOR_REPLUG
    attachCalled,    \* the plugin's attach was invoked on the device
    writeFailed,     \* the plugin's write_firmware returned FALSE
    ispLog,          \* rts54hub: the ISP commands and status polls, in order
    chunk,           \* index of the next byte / chunk of the write loop
    tries,           \* fu_device_retry: callback invocations so far
    lastDetach,      \* how the previous detach attempt ended
    detachStatus,    \* the status byte that attempt read, "unread" if it read none
    retriedAfterTransport, \* an attempt was made after a transport failure
    resetIo,         \* fresco-pd: what the reset register update returned
    resetWritten,    \* fresco-pd: the write of the reset register was sent
    progSteps,       \* FuProgress of write_firmware: the step weights
    progDone,        \* ... the number of steps done
    progChild        \* ... the percentage of the current child

optVars == <<plugin, prepare_blob, cleanup_blob>>
devVars == <<updateMode, unplugged, waitForReplug, attachCalled>>
retryVars == <<tries, lastDetach, detachStatus, retriedAfterTransport>>
resetVars == <<resetIo, resetWritten>>
progVars == <<progSteps, progDone, progChild>>
blobVars == <<bpc, optVars, berr, prepared, cleanedUp, devVars, writeFailed, ispLog,
              chunk, retryVars, resetVars, progVars>>

VARIABLES
    \* --- fwupdtool refresh
    rpc,             \* position in fu_util_refresh and fu_util_refresh_remote
    remotes,         \* the remotes fu_engine_get_remotes returns, in order
    rforce,          \* FWUPD_INSTALL_FLAG_FORCE is in self->flags
    ri,              \* the loop index of fu_util_refresh (from 1)
    rlog,            \* the downloads, signature loads and index updates, in order
    rerr,            \* the GError the command returned
    applied          \* remotes whose metadata the engine has taken

refreshVars == <<rpc, remotes, rforce, ri, rlog, rerr, applied>>

VARIABLES
    \* --- fwupdtool install: fu_util_install_stream
    spc,             \* position in fu_util_install_stream
    si,              \* index of the component of the outer loop (from 1)
    sj,              \* index of the device of the inner loop (from 1)
    priority,        \* the priority of each device
    releases,        \* the GPtrArray releases
    errors,          \* the GPtrArray errors
    loadOk,          \* pairs for which fu_engine_load_release succeeded
    reqOk,           \* pairs for which fu_engine_requirements_check succeeded
    installCalled,   \* fu_engine_install_releases was invoked
    installed,       \* the releases it was given
    serr             \* the GError the function returned

streamVars == <<spc, si, sj, priority, releases, errors, loadOk, reqOk, installCalled,
                installed, serr>>

VARIABLES
    \* --- switch-branch of fwupdtool and of fwupdmgr
    sbpc,            \* position in fu_util_switch_branch
    sbcli,           \* "fwupdtool" or "fwupdmgr"
    sbdevices,       \* the devices the engine (or the daemon) knows
    sbvalues,        \* the command line arguments (values)
    sbdev,           \* dev: the selected device, 0 while there is none
    sbbranch,        \* branch: the destination branch
    sbflags,         \* the install flags added to self->flags
    sbinstalled,     \* the install of a release was issued
    sberr            \* the GError the command returned

branchVars == <<sbpc, sbcli, sbdevices, sbvalues, sbdev, sbbranch, sbflags, sbinstalled,
                sberr>>

VARIABLES
    \* --- fwupdtool update: fu_util_update over the devices of the engine
    upc,             \* position in fu_util_update and in what it calls
    ui,              \* the loop index of fu_util_update (from 1)
    udev,            \* what was read of the device of this turn
    rootPct,         \* percentage of self->progress, -1 while it has none
    rootLog,         \* the percentages self->progress emitted, in order
    uoutcome,        \* what became of each device
    uerr             \* the GError fu_util_update returned

updateVars == <<upc, ui, udev, rootPct, rootLog, uoutcome, uerr>>

VARIABLES
    \* --- fwupdmgr: the reports sent after an install
    rppc,             \* position in fu_util_maybe_send_reports and its callees
    rprel,           \* the remote of the release, 0 when it has none
    rpremotes,       \* the remotes of the daemon
    rpflags,         \* self->assume_yes, FWUPD_INSTALL_FLAG_FORCE
    rponly,          \* only_automatic_reports of fu_util_report_history_full
    rpi,             \* the loop index over the remotes (from 1)
    rpcnt,           \* cnt of fu_util_report_history_full
    rpupload,        \* remote_upload of the call in progress, and its caller
    rpprompts,       \* the remotes the user was asked about
    rpuploads,       \* the remotes a report was posted to
    rpdevices,       \* the history devices: the remote of each one's release
    rpincluded,      \* the devices some posted report included
    rpreported,      \* the devices this run marked as reported
    rperr            \* the GError of fu_util_report_history

rpdevVars == <<rpdevices, rpincluded, rpreported>>
reportVars == <<rppc, rprel, rpremotes, rpflags, rponly, rpi, rpcnt, rpupload,
                rpprompts, rpuploads, rpdevVars, rperr>>

VARIABLES
    \* --- fwupdmgr: the check for old metadata and the download of new
    mpc,             \* position in the command
    mcmd,            \* "get-updates" or "refresh"
    mremotes,        \* the remotes of the daemon
    mflags,          \* no_metadata_check, assume_yes, FWUPD_INSTALL_FLAG_FORCE
    mi,              \* the loop index of fu_util_download_metadata (from 1)
    mcnt,            \* refresh_cnt
    menabled,        \* download_remote_enabled
    mfetched,        \* the remotes fwupd_client_refresh_remote was called for
    masked,          \* whether the user was asked "Update now?"
    merr             \* the GError the command returned

metadataVars == <<mpc, mcmd, mremotes, mflags, mi, mcnt, menabled, mfetched,
                  masked, merr>>

VARIABLES
    \* --- fwupdmgr activate
    apc,             \* position in fu_util_activate
    adevices,        \* the devices of the daemon
    avalue,          \* the device named on the command line, 0 when none is
    aselected,       \* the array devices
    ai,              \* the index of the second loop (from 1)
    has_pending,
    activated,       \* the devices fwupd_client_activate was called for
    aerr             \* the GError fu_util_activate returned

activateVars == <<apc, adevices, avalue, aselected, ai, has_pending, activated,
                  aerr>>

VARIABLES
    \* --- fwupdmgr device-wait
    wpc,             \* position in fu_util_device_wait
    wvalues,         \* g_strv_length(values)
    wtime,           \* seconds the main loop has run
    wadded,          \* device-added signals for other devices so far
    helper_device,   \* helper.device is set
    werr             \* the GError fu_util_device_wait returned

waitVars == <<wpc, wvalues, wtime, wadded, helper_device, werr>>

VARIABLES
    \* --- main of both programs: the exit code
    xpc,             \* position in main
    xcli,            \* "fwupdtool" or "fwupdmgr"
    xret,            \* what fu_util_cmd_array_run returned
    xerror,          \* the kind of the GError it set
    xjson,           \* self->as_json
    xcode            \* what main returned, -1 before it did

exitVars == <<xpc, xcli, xret, xerror, xjson, xcode>>

VARIABLES
    \* --- fu_common_guid_is_plausible
    gpc,             \* "call" before the call, "returned" after it
    gbuf,            \* the 16 bytes at buf
    gret             \* what the function returned

guidVars == <<gpc, gbuf, gret>>

VARIABLES
    \* --- fwupdmgr block-firmware and unblock-firmware, run side by side
    bkpc,            \* per invocation: position in its command
    bkop,            \* per invocation: "block" or "unblock"
    bkcsum,          \* per invocation: the checksum it was given
    bknew,           \* per invocation: csums_new
    bkerr,           \* per invocation: the GError of the command
    blocked          \* the blocked-firmware list of the daemon

blockVars == <<bkpc, bkop, bkcsum, bknew, bkerr, blocked>>

VARIABLES
    \* --- fwupdmgr inhibit
    ipc,             \* position in fu_util_inhibit
    ivalues,         \* the arguments: how many, and the timeout text
    itimeout_ms,     \* timeout_ms
    itime,           \* milliseconds spent in the main loop
    inhibit_id,      \* helper->inhibit_id, 0 for none
    iheld,           \* the inhibit IDs the daemon holds
    icalls,          \* the inhibit IDs fwupd_client_uninhibit was called with
    ierr             \* the GError of the command

inhibitVars == <<ipc, ivalues, itimeout_ms, itime, inhibit_id, iheld, icalls, ierr>>

VARIABLES
    \* --- fu_logitech_hidpp_bootloader_parse_requests
    lgpc,            \* "loop" in the loop over the lines, then "returned" or "failed"
    lglines,         \* the lines of the firmware, one record each
    lgi,             \* the index of the line the loop is at (from 1)
    reqs,            \* the requests collected so far
    last_addr,       \* last_addr
    flash_addr,      \* priv->flash_addr_lo and priv->flash_addr_hi
    lgerr            \* the GError of the call

logitechVars == <<lgpc, lglines, lgi, reqs, last_addr, flash_addr, lgerr>>

\* the parts other than the five above
moreVars == <<updateVars, reportVars, metadataVars, activateVars, waitVars,
              exitVars, guidVars, blockVars, inhibitVars, logitechVars>>

vars == <<lockVars, blobVars, refreshVars, streamVars, branchVars, moreVars>>

\* what the actions of each part leave alone
notLockVars == <<blobVars, refreshVars, streamVars, branchVars, moreVars>>
notBlobVars == <<lockVars, refreshVars, streamVars, branchVars, moreVars>>
notRefreshVars == <<lockVars, blobVars, streamVars, branchVars, moreVars>>
notStreamVars == <<lockVars, blobVars, refreshVars, branchVars, moreVars>>
notBranchVars == <<lockVars, blobVars, refreshVars, streamVars, moreVars>>
firstVars == <<lockVars, blobVars, refreshVars, streamVars, branchVars>>
notUpdateVars ==
    <<firstVars, reportVars, metadataVars, activateVars, waitVars, exitVars,
      guidVars, blockVars, inhibitVars, logitechVars>>
notReportVars ==
    <<firstVars, updateVars, metadataVars, activateVars, waitVars, exitVars,
      guidVars, blockVars, inhibitVars, logitechVars>>
notMetadataVars ==
    <<firstVars, updateVars, reportVars, activateVars, waitVars, exitVars,
      guidVars, blockVars, inhibitVars, logitechVars>>
notActivateVars ==
    <<firstVars, updateVars, reportVars, metadataVars, waitVars, exitVars,
      guidVars, blockVars, inhibitVars, logitechVars>>
notWaitVars ==
    <<firstVars, updateVars, reportVars, metadataVars, activateVars,
      exitVars, guidVars, blockVars, inhibitVars, logitechVars>>
notExitVars ==
    <<firstVars, updateVars, reportVars, metadataVars, activateVars,
      waitVars, guidVars, blockVars, inhibitVars, logitechVars>>
notGuidVars ==
    <<firstVars, updateVars, reportVars, metadataVars, activateVars,
      waitVars, exitVars, blockVars, inhibitVars, logitechVars>>
notBlockVars ==
    <<firstVars, updateVars, reportVars, metadataVars, activateVars,
      waitVars, exitVars, guidVars, inhibitVars, logitechVars>>
notInhibitVars ==
    <<firstVars, updateVars, reportVars, metadataVars, activateVars,
      waitVars, exitVars, guidVars, blockVars, logitechVars>>
notLogitechVars ==
    <<firstVars, updateVars, reportVars, metadataVars, activateVars,
      waitVars, exitVars, guidVars, blockVars, inhibitVars>>

\* ------------------------------------------------------------------------
\* fwupdtool: the lock file, the engine and the history database
\* ------------------------------------------------------------------------

\* commands that load the engine through fu_util_start_engine
StartEngineCmds == {"get-devices", "get-history", "activate"}

\* firmware-parse, firmware-export, ...: fu_engine_load called directly
DirectLoadCmds == {"firmware-parse"}

ToolCmds == StartEngineCmds \cup DirectLoadCmds \cup {"clear-history"}

\* what fu_engine_load can fail with
EngineLoadErrors == {"Internal", "NotFound"}

FirstStep(c) ==
    CASE c = "activate" -> "check"
      [] c = "clear-history" -> "history"
      [] c \in DirectLoadCmds -> "load"
      [] OTHER -> "start"

LockInit ==
    /\ cmd = [p \in Procs |-> "none"]
    /\ pc = [p \in Procs |-> "exited"]
    /\ lock_fd = [p \in Procs |-> "closed"]
    /\ wrlck = [p \in Procs |-> FALSE]
    /\ loaded = [p \in Procs |-> FALSE]
    /\ err = [p \in Procs |-> NoError]
    /\ lockBusy = [p \in Procs |-> FALSE]
    /\ histAccess = [p \in Procs |-> "none"]
    /\ needsActivation \in BOOLEAN

\* a new fwupdtool process: main() sets lock_fd = -1 and runs one command
Spawn(p, c) ==
    /\ pc[p] = "exited"
    /\ UNCHANGED notLockVars
    /\ cmd' = [cmd EXCEPT ![p] = c]
    /\ pc' = [pc EXCEPT ![p] = FirstStep(c)]
    /\ err' = [err EXCEPT ![p] = NoError]
    /\ lockBusy' = [lockBusy EXCEPT ![p] = FALSE]
    /\ histAccess' = [histAccess EXCEPT ![p] = "none"]
    /\ UNCHANGED <<lock_fd, wrlck, loaded, needsActivation>>

\* the fcntl(F_OFD_SETLK / F_SETLK, F_WRLCK) call fails when another process
\* holds the write lock
LockHeldByOther(p) == \E q \in Procs \ {p} : wrlck[q]

\* a lock that never notices the other holder
fu_util_lock_nocheck(p) ==
    {[ok |-> TRUE, fd |-> "open", wr |-> TRUE, err |-> NoError]}

\* fu_util_lock: the outcomes [ok, fd, wr, err] of one call by process p
fu_util_lock(p) ==
    \* g_open() failed
    {[ok |-> FALSE, fd |-> "closed", wr |-> FALSE,
      err |-> Error("NotSupported", "failed to open")]}
    \cup
    (IF LockHeldByOther(p)
     THEN {[ok |-> FALSE, fd |-> "open", wr |-> FALSE,
            err |-> Error("NotSupported", "another instance has locked")]}
     ELSE {[ok |-> TRUE, fd |-> "open", wr |-> TRUE, err |-> NoError]})

\* start the engine although the lock was not taken
fu_util_start_engine_nolock(p) ==
    /\ pc[p] = "start"
    /\ UNCHANGED notLockVars
    /\ ~loaded[p]
    /\ \E l \in fu_util_lock(p) :
        /\ lock_fd' = [lock_fd EXCEPT ![p] = l.fd]
        /\ wrlck' = [wrlck EXCEPT ![p] = l.wr]
        /\ lockBusy' = [lockBusy EXCEPT ![p] = LockHeldByOther(p)]
        /\ loaded' = [loaded EXCEPT ![p] = TRUE]
        /\ pc' = [pc EXCEPT ![p] = "body"]
        /\ UNCHANGED err
    /\ UNCHANGED <<cmd, histAccess, needsActivation>>

\* fu_util_start_engine, for an engine that is not loaded yet
fu_util_start_engine(p) ==
    /\ pc[p] = "start"
    /\ UNCHANGED notLockVars
    /\ ~loaded[p]
    /\ \E l \in fu_util_lock(p) :
        /\ lock_fd' = [lock_fd EXCEPT ![p] = l.fd]
        /\ wrlck' = [wrlck EXCEPT ![p] = l.wr]
        /\ lockBusy' = [lockBusy EXCEPT ![p] = LockHeldByOther(p)]
        /\ IF ~l.ok
           THEN /\ err' = [err EXCEPT ![p] = PrefixError(l.err, "Failed to lock")]
                /\ pc' = [pc EXCEPT ![p] = "failed"]
                /\ UNCHANGED loaded
           ELSE \/ /\ loaded' = [loaded EXCEPT ![p] = TRUE]
                   /\ pc' = [pc EXCEPT ![p] = "body"]
                   /\ UNCHANGED err
                \/ \E k \in EngineLoadErrors :
                   /\ err' = [err EXCEPT ![p] = Error(k, "engine load")]
                   /\ pc' = [pc EXCEPT ![p] = "failed"]
                   /\ UNCHANGED loaded
    /\ UNCHANGED <<cmd, histAccess, needsActivation>>

\* firmware-parse and its siblings: fu_engine_load(READONLY) with no lock
fu_util_firmware_parse(p) ==
    /\ pc[p] = "load"
    /\ UNCHANGED notLockVars
    /\ \/ /\ loaded' = [loaded EXCEPT ![p] = TRUE]
          /\ pc' = [pc EXCEPT ![p] = "done"]
          /\ UNCHANGED err
       \/ \E k \in EngineLoadErrors :
          /\ err' = [err EXCEPT ![p] = Error(k, "engine load")]
          /\ pc' = [pc EXCEPT ![p] = "failed"]
          /\ UNCHANGED loaded
    /\ UNCHANGED <<cmd, lock_fd, wrlck, lockBusy, histAccess, needsActivation>>

\* a history database access, made with or without the lock
HistoryAccess(p) == IF wrlck[p] THEN "locked" ELSE "unlocked"

\* fu_util_check_activation_needed, the first step of fu_util_activate
fu_util_check_activation_needed(p) ==
    /\ pc[p] = "check"
    /\ UNCHANGED notLockVars
    /\ histAccess' = [histAccess EXCEPT ![p] = HistoryAccess(p)]
    /\ \/ \* fu_history_get_devices failed
          /\ pc' = [pc EXCEPT ![p] = "failed"]
          /\ err' = [err EXCEPT ![p] = Error("Internal", "history")]
       \/ IF needsActivation
          THEN /\ pc' = [pc EXCEPT ![p] = "start"]
               /\ UNCHANGED err
          ELSE /\ pc' = [pc EXCEPT ![p] = "failed"]
               /\ err' = [err EXCEPT ![p] =
                              Error("NothingToDo", "No devices to activate")]
    /\ UNCHANGED <<cmd, lock_fd, wrlck, loaded, lockBusy, needsActivation>>

\* fu_util_clear_history
fu_util_clear_history(p) ==
    /\ pc[p] = "history"
    /\ UNCHANGED notLockVars
    /\ histAccess' = [histAccess EXCEPT ![p] = HistoryAccess(p)]
    /\ \/ /\ needsActivation' = FALSE
          /\ pc' = [pc EXCEPT ![p] = "done"]
          /\ UNCHANGED err
       \/ \* fu_history_remove_all failed
          /\ pc' = [pc EXCEPT ![p] = "failed"]
          /\ err' = [err EXCEPT ![p] = Error("Internal", "history")]
          /\ UNCHANGED needsActivation
    /\ UNCHANGED <<cmd, lock_fd, wrlck, loaded, lockBusy>>

\* the rest of a command that started the engine
fu_util_command_body(p) ==
    /\ pc[p] = "body"
    /\ UNCHANGED notLockVars
    /\ histAccess' = [histAccess EXCEPT ![p] =
                        IF cmd[p] = "get-history" THEN HistoryAccess(p) ELSE @]
    /\ pc' = [pc EXCEPT ![p] = "done"]
    /\ UNCHANGED <<cmd, lock_fd, wrlck, loaded, err, lockBusy, needsActivation>>

\* fu_util_private_free when main returns
fu_util_private_free(p) ==
    /\ pc[p] \in {"done", "failed"}
    /\ UNCHANGED notLockVars
    /\ pc' = [pc EXCEPT ![p] = "exited"]
    /\ lock_fd' = [lock_fd EXCEPT ![p] = "closed"]
    /\ wrlck' = [wrlck EXCEPT ![p] = FALSE]
    /\ loaded' = [loaded EXCEPT ![p] = FALSE]
    /\ UNCHANGED <<cmd, err, lockBusy, histAccess, needsActivation>>

LockStep ==
    \E p \in Procs :
        \/ \E c \in ToolCmds : Spawn(p, c)
        \/ fu_util_start_engine(p)
        \/ fu_util_firmware_parse(p)
        \/ fu_util_check_activation_needed(p)
        \/ fu_util_clear_history(p)
        \/ fu_util_command_body(p)
        \/ fu_util_private_free(p)


\* ------------------------------------------------------------------------
\* Properties of the lock, the engine and the history database
\* ------------------------------------------------------------------------

\* C3 as stated: no two processes sharing the lock file both have a loaded
\* engine, and a loaded engine implies its process holds the write lock
C3_OneLoadedEngine ==
    /\ \A p \in Procs : loaded[p] => wrlck[p]
    /\ \A p, q \in Procs : (p # q) => ~(loaded[p] /\ loaded[q])

\* C3 amended: an engine loaded through fu_util_start_engine is loaded only
\* while its process holds the write lock, so no two processes sharing the
\* lock file both have an engine loaded that way; the firmware-* commands
\* load a read-only engine without taking the lock
C3_OneStartedEngine ==
    /\ \A p \in Procs : (loaded[p] /\ cmd[p] \in StartEngineCmds) => wrlck[p]
    /\ \A p, q \in Procs :
        (p # q) => ~(/\ loaded[p] /\ cmd[p] \in StartEngineCmds
                     /\ loaded[q] /\ cmd[q] \in StartEngineCmds)

\* a process runs with its engine started while another one was refused the lock
C3_Witness ==
    \E p, q \in Procs :
        /\ p # q
        /\ loaded[p] /\ cmd[p] \in StartEngineCmds /\ wrlck[p]
        /\ pc[q] = "failed" /\ lockBusy[q] /\ cmd[q] \in StartEngineCmds

\* C4: every access to the history database is made while the process holds
\* the exclusive lock
C4_HistoryUnderLock == \A p \in Procs : histAccess[p] # "unlocked"

MaxBody == 2

\* fu_device_retry(device, detach_cb, 100, ...)
DetachRetryCount == 100

Plugins == {"fresco-pd", "rts54hub"}

\* the error kinds a transfer on the bus fails with
IoErrors == {"Internal", "NotSupported", "Timeout"}

\* what one transfer returns: NoError, or an error
IoOutcomes == {NoError} \cup {Error(k, "transfer") : k \in IoErrors}

\* the status byte the rts54hub ISP reports
IspStatuses == {"idle-success", "busy", "idle-failure"}

\* an entry of the ISP log: a command or status poll, with the chunk index of
\* a data write
Isp(c) == [cmd |-> c, arg |-> 0]

IspData(i) == [cmd |-> "data", arg |-> i]

\* the device vfuncs each plugin sets in its class_init
fu_fresco_pd_device_class_init ==
    {"to_string", "setup", "write_firmware", "prepare_firmware", "set_progress"}

fu_rts54hub_rtd21xx_foreground_class_init ==
    {"setup", "reload", "attach", "detach", "write_firmware"}

Capabilities(pl) ==
    IF pl = "fresco-pd" THEN fu_fresco_pd_device_class_init
    ELSE fu_rts54hub_rtd21xx_foreground_class_init

BlobInit ==
    /\ bpc = "start"
    /\ plugin \in Plugins
    /\ prepare_blob \in BOOLEAN
    /\ cleanup_blob \in BOOLEAN
    /\ berr = NoError
    /\ prepared = FALSE
    /\ cleanedUp = FALSE
    /\ updateMode = FALSE
    /\ unplugged = FALSE
    /\ waitForReplug = FALSE
    /\ attachCalled = FALSE
    /\ writeFailed = FALSE
    /\ ispLog = <<>>
    /\ chunk = 0
    /\ tries = 0
    /\ lastDetach = "none"
    /\ detachStatus = "unread"
    /\ retriedAfterTransport = FALSE
    /\ resetIo = "none"
    /\ resetWritten = FALSE
    /\ progSteps = <<>>
    /\ progDone = 0
    /\ progChild = 0

\* a transfer can succeed only while the device is on the bus
Io == IF unplugged THEN IoOutcomes \ {NoError} ELSE IoOutcomes

IoFailures == IoOutcomes \ {NoError}

\* the plugin's write_firmware returns FALSE with error e
WriteFails(e) ==
    /\ bpc' = "eng_failed"
    /\ berr' = e
    /\ writeFailed' = TRUE

\* --- fu_util_install_blob ------------------------------------------------

\* arguments, blob, engine start and device selection
fu_util_install_blob_begin ==
    /\ bpc = "start"
    /\ UNCHANGED notBlobVars
    /\ \/ /\ bpc' = "tool_prepare"
          /\ UNCHANGED berr
       \/ \E k \in {"InvalidArgs", "NotSupported", "NotFound"} :
          /\ bpc' = "failed"
          /\ berr' = Error(k, "install-blob")
    /\ UNCHANGED <<optVars, prepared, cleanedUp, devVars, writeFailed, ispLog, chunk,
                   retryVars, resetVars, progVars>>

\* if (self->prepare_blob) fu_engine_composite_prepare()
fu_util_install_blob_prepare ==
    /\ bpc = "tool_prepare"
    /\ UNCHANGED notBlobVars
    /\ IF prepare_blob
       THEN \/ /\ prepared' = TRUE
               /\ bpc' = "eng_detach"
               /\ UNCHANGED berr
            \/ \E e \in IoFailures :
               /\ berr' = PrefixError(e, "failed to prepare composite action: ")
               /\ bpc' = "failed"
               /\ UNCHANGED prepared
       ELSE /\ bpc' = "eng_detach"
            /\ UNCHANGED <<berr, prepared>>
    /\ UNCHANGED <<optVars, cleanedUp, devVars, writeFailed, ispLog, chunk,
                   retryVars, resetVars, progVars>>

\* the cleanup block that follows a successful fu_engine_install_blob
fu_util_install_blob_cleanup ==
    /\ bpc = "tool_cleanup"
    /\ UNCHANGED notBlobVars
    /\ IF cleanup_blob
       THEN \/ \* fu_util_get_device failed: only a debug message
               /\ bpc' = "done"
               /\ UNCHANGED <<berr, cleanedUp>>
            \/ /\ cleanedUp' = TRUE
               /\ \/ /\ bpc' = "done"
                     /\ UNCHANGED berr
                  \/ \E e \in IoFailures :
                     /\ berr' = PrefixError(e, "failed to cleanup composite action: ")
                     /\ bpc' = "failed"
       ELSE /\ bpc' = "done"
            /\ UNCHANGED <<berr, cleanedUp>>
    /\ UNCHANGED <<optVars, prepared, devVars, writeFailed, ispLog, chunk,
                   retryVars, resetVars, progVars>>

\* --- the engine's install of one blob -------------------------------------

\* detach, if the plugin has it
fu_engine_install_blob_detach ==
    /\ bpc = "eng_detach"
    /\ UNCHANGED notBlobVars
    /\ bpc' = IF "detach" \in Capabilities(plugin) THEN "rts_detach" ELSE "eng_write"
    /\ UNCHANGED <<optVars, berr, prepared, cleanedUp, devVars, writeFailed, ispLog,
                   chunk, retryVars, resetVars, progVars>>

\* write_firmware
fu_engine_install_blob_write ==
    /\ bpc = "eng_write"
    /\ UNCHANGED notBlobVars
    /\ bpc' = IF plugin = "fresco-pd" THEN "fresco_begin" ELSE "rts_begin"
    /\ UNCHANGED <<optVars, berr, prepared, cleanedUp, devVars, writeFailed, ispLog,
                   chunk, retryVars, resetVars, progVars>>

\* a step failed: attach (best effort, if the plugin has it and the device is
\* still there), then return the first error
fu_engine_install_blob_failed ==
    /\ bpc = "eng_failed"
    /\ UNCHANGED notBlobVars
    /\ attachCalled' = (attachCalled \/ ("attach" \in Capabilities(plugin) /\ ~unplugged))
    /\ bpc' = "failed"
    /\ UNCHANGED <<optVars, berr, prepared, cleanedUp, updateMode, unplugged,
                   waitForReplug, writeFailed, ispLog, chunk, retryVars, resetVars,
                   progVars>>

\* attach after a successful write, if the plugin has it
fu_engine_install_blob_attach ==
    /\ bpc = "eng_attach"
    /\ UNCHANGED notBlobVars
    /\ bpc' = IF "attach" \in Capabilities(plugin) THEN "rts_attach" ELSE "eng_reload"
    /\ UNCHANGED <<optVars, berr, prepared, cleanedUp, devVars, writeFailed, ispLog,
                   chunk, retryVars, resetVars, progVars>>

\* reload, if the plugin has it
fu_engine_install_blob_reload ==
    /\ bpc = "eng_reload"
    /\ UNCHANGED notBlobVars
    /\ IF "reload" \in Capabilities(plugin)
       THEN \/ /\ ~unplugged
               /\ bpc' = "tool_cleanup"
               /\ UNCHANGED berr
            \/ \E e \in IoFailures :
               /\ berr' = e
               /\ bpc' = "failed"
       ELSE /\ bpc' = "tool_cleanup"
            /\ UNCHANGED berr
    /\ UNCHANGED <<optVars, prepared, cleanedUp, devVars, writeFailed, ispLog,
                   chunk, retryVars, resetVars, progVars>>

\* the device leaves the bus while the engine works on it
DeviceUnplug ==
    /\ ~unplugged
    /\ UNCHANGED notBlobVars
    /\ bpc \notin {"start", "tool_prepare", "tool_cleanup", "done", "failed"}
    /\ unplugged' = TRUE
    /\ UNCHANGED <<bpc, optVars, berr, prepared, cleanedUp, updateMode, waitForReplug,
                   attachCalled, writeFailed, ispLog, chunk, retryVars, resetVars,
                   progVars>>

\* --- rts54hub rtd21xx foreground: detach ----------------------------------

\* a callback that takes any status byte it could read for a success
fu_rts54hub_rtd21xx_foreground_detach_cb_anystatus(w, r, status) ==
    IF w # NoError
    THEN [ok |-> FALSE, transport |-> TRUE, err |-> PrefixError(w, "failed to detach: ")]
    ELSE IF r # NoError
    THEN [ok |-> FALSE, transport |-> TRUE, err |-> r]
    ELSE [ok |-> TRUE, transport |-> FALSE, err |-> NoError]

\* fu_rts54hub_rtd21xx_foreground_detach_cb: the result [ok, transport, err]
\* of one attempt, from what the detach write, the status read and the status
\* byte were
fu_rts54hub_rtd21xx_foreground_detach_cb(w, r, status) ==
    IF w # NoError
    THEN [ok |-> FALSE, transport |-> TRUE, err |-> PrefixError(w, "failed to detach: ")]
    ELSE IF r # NoError
    THEN [ok |-> FALSE, transport |-> TRUE, err |-> r]
    ELSE IF status # "idle-success"
    THEN [ok |-> FALSE, transport |-> FALSE, err |-> Error("Internal", "detach status was")]
    ELSE [ok |-> TRUE, transport |-> FALSE, err |-> NoError]

\* fu_device_retry: what follows the n-th invocation of the callback
fu_device_retry(count, n, ok) ==
    IF ok THEN "success" ELSE IF n >= count THEN "failed" ELSE "again"

\* fu_rts54hub_rtd21xx_foreground_detach: open the parent device
fu_rts54hub_rtd21xx_foreground_detach ==
    /\ bpc = "rts_detach"
    /\ UNCHANGED notBlobVars
    /\ \/ /\ ~unplugged
          /\ bpc' = "rts_detach_cb"
          /\ UNCHANGED berr
       \/ \E e \in IoFailures :
          /\ berr' = e
          /\ bpc' = "eng_failed"
    /\ UNCHANGED <<optVars, prepared, cleanedUp, devVars, writeFailed, ispLog, chunk,
                   retryVars, resetVars, progVars>>

\* one turn of fu_device_retry(device, detach_cb, 100, ...)
fu_rts54hub_rtd21xx_foreground_detach_retry ==
    /\ bpc = "rts_detach_cb"
    /\ UNCHANGED notBlobVars
    /\ \E w \in Io, r \in Io, status \in IspStatuses :
        LET o == fu_rts54hub_rtd21xx_foreground_detach_cb(w, r, status)
            next == fu_device_retry(DetachRetryCount, tries + 1, o.ok)
        IN  /\ tries' = tries + 1
            /\ retriedAfterTransport' =
                   (retriedAfterTransport \/ lastDetach = "transport")
            /\ lastDetach' = IF o.ok THEN "ok"
                             ELSE IF o.transport THEN "transport" ELSE "status"
            /\ detachStatus' = IF w = NoError /\ r = NoError THEN status ELSE "unread"
            /\ berr' = IF next = "success" THEN NoError ELSE o.err
            /\ bpc' = CASE next = "success" -> "eng_write"
                        [] next = "failed" -> "eng_failed"
                        [] OTHER -> "rts_detach_cb"
    /\ UNCHANGED <<optVars, prepared, cleanedUp, devVars, writeFailed, ispLog, chunk,
                   resetVars, progVars>>

\* --- rts54hub rtd21xx foreground: attach ----------------------------------

\* fu_rts54hub_rtd21xx_foreground_attach, called after a successful write
fu_rts54hub_rtd21xx_foreground_attach ==
    /\ bpc = "rts_attach"
    /\ UNCHANGED notBlobVars
    /\ attachCalled' = TRUE
    /\ \/ \* parent opened, status read, ISP_CMD_FW_UPDATE_RESET written
          /\ ~unplugged
          /\ ispLog' = ispLog \o <<Isp("status"), Isp("fw-update-reset")>>
          /\ bpc' = "eng_reload"
          /\ UNCHANGED berr
       \/ \* the parent could not be opened or the status read failed
          \E e \in IoFailures :
          /\ berr' = e
          /\ bpc' = "failed"
          /\ UNCHANGED ispLog
       \/ \* the reset command could not be written
          \E e \in IoFailures :
          /\ ~unplugged
          /\ berr' = PrefixError(e, "failed to ISP_CMD_FW_UPDATE_RESET: ")
          /\ ispLog' = ispLog \o <<Isp("status"), Isp("fw-update-reset")>>
          /\ bpc' = "failed"
    /\ UNCHANGED <<optVars, prepared, cleanedUp, updateMode, unplugged, waitForReplug,
                   writeFailed, chunk, retryVars, resetVars, progVars>>

\* --- rts54hub rtd21xx foreground: write_firmware ---------------------------

\* progress steps, device locker, firmware stream
fu_rts54hub_rtd21xx_foreground_write_begin ==
    /\ bpc = "rts_begin"
    /\ UNCHANGED notBlobVars
    /\ progSteps' = <<5, 90, 5>>
    /\ progDone' = 0
    /\ progChild' = 0
    /\ \/ /\ ~unplugged
          /\ bpc' = "rts_enter"
          /\ UNCHANGED <<berr, writeFailed>>
       \/ \E e \in IoFailures : WriteFails(e)
    /\ UNCHANGED <<optVars, prepared, cleanedUp, devVars, ispLog, chunk, retryVars,
                   resetVars>>

\* ISP_CMD_ENTER_FW_UPDATE, then read the status
fu_rts54hub_rtd21xx_foreground_write_enter ==
    /\ bpc = "rts_enter"
    /\ UNCHANGED notBlobVars
    /\ \/ \E e \in IoFailures :
          /\ WriteFails(PrefixError(e, "failed to enable ISP: "))
          /\ ispLog' = Append(ispLog, Isp("enter-fw-update"))
          /\ UNCHANGED updateMode
       \/ \E e \in IoFailures :
          /\ ~unplugged
          /\ WriteFails(e)
          /\ ispLog' = Append(ispLog, Isp("enter-fw-update"))
          /\ updateMode' = TRUE
       \/ /\ ~unplugged
          /\ ispLog' = ispLog \o <<Isp("enter-fw-update"), Isp("status")>>
          /\ updateMode' = TRUE
          /\ bpc' = "rts_project_id"
          /\ UNCHANGED <<berr, writeFailed>>
    /\ UNCHANGED <<optVars, prepared, cleanedUp, unplugged, waitForReplug, attachCalled,
                   chunk, retryVars, resetVars, progVars>>

\* a read-back of the project ID whose status byte is not looked at
fu_rts54hub_rtd21xx_foreground_write_project_id_anystatus ==
    /\ bpc = "rts_project_id"
    /\ UNCHANGED notBlobVars
    /\ \/ \E e \in IoFailures :
          /\ WriteFails(PrefixError(e, "failed to get project ID address: "))
          /\ ispLog' = Append(ispLog, Isp("get-project-id-address"))
       \/ \E e \in IoFailures :
          /\ ~unplugged
          /\ WriteFails(PrefixError(e, "failed to read project ID: "))
          /\ ispLog' = Append(ispLog, Isp("get-project-id-address"))
       \/ \E status \in IspStatuses :
          /\ ~unplugged
          /\ ispLog' = ispLog \o <<Isp("get-project-id-address"),
                                   [cmd |-> "read-project-id",
                                    arg |-> IF status = "idle-success"
                                            THEN 1 ELSE 0]>>
          /\ bpc' = "rts_sync"
          /\ UNCHANGED <<berr, writeFailed>>
    /\ UNCHANGED <<optVars, prepared, cleanedUp, devVars, chunk, retryVars, resetVars,
                   progVars>>

\* ISP_CMD_GET_PROJECT_ID_ADDR, then read back 6 bytes; the log gets the
\* status byte read back, 1 for idle-success
fu_rts54hub_rtd21xx_foreground_write_project_id ==
    /\ bpc = "rts_project_id"
    /\ UNCHANGED notBlobVars
    /\ \/ \E e \in IoFailures :
          /\ WriteFails(PrefixError(e, "failed to get project ID address: "))
          /\ ispLog' = Append(ispLog, Isp("get-project-id-address"))
       \/ \E e \in IoFailures :
          /\ ~unplugged
          /\ WriteFails(PrefixError(e, "failed to read project ID: "))
          /\ ispLog' = Append(ispLog, Isp("get-project-id-address"))
       \/ \E status \in IspStatuses :
          /\ ~unplugged
          /\ ispLog' = ispLog \o <<Isp("get-project-id-address"),
                                   [cmd |-> "read-project-id",
                                    arg |-> IF status = "idle-success"
                                            THEN 1 ELSE 0]>>
          /\ IF status # "idle-success"
             THEN WriteFails(Error("InvalidData", "failed project ID with error"))
             ELSE /\ bpc' = "rts_sync"
                  /\ UNCHANGED <<berr, writeFailed>>
    /\ UNCHANGED <<optVars, prepared, cleanedUp, devVars, chunk, retryVars, resetVars,
                   progVars>>

\* ISP_CMD_SYNC_IDENTIFY_CODE with the project ID of the image, then the status
fu_rts54hub_rtd21xx_foreground_write_sync ==
    /\ bpc = "rts_sync"
    /\ UNCHANGED notBlobVars
    /\ \/ \* the project ID is not inside the image
          /\ WriteFails(PrefixError(Error("InvalidData", "read"),
                                    "failed to write project ID from: "))
          /\ UNCHANGED ispLog
       \/ \E e \in IoFailures :
          /\ WriteFails(PrefixError(e, "failed to send fw update start cmd: "))
          /\ ispLog' = Append(ispLog, Isp("sync-identify-code"))
       \/ \E e \in IoFailures :
          /\ ~unplugged
          /\ WriteFails(e)
          /\ ispLog' = Append(ispLog, Isp("sync-identify-code"))
       \/ /\ ~unplugged
          /\ ispLog' = ispLog \o <<Isp("sync-identify-code"), Isp("status")>>
          /\ bpc' = "rts_start"
          /\ UNCHANGED <<berr, writeFailed>>
    /\ UNCHANGED <<optVars, prepared, cleanedUp, devVars, chunk, retryVars, resetVars,
                   progVars>>

\* ISP_CMD_FW_UPDATE_START, the first step is done, build the chunk array
fu_rts54hub_rtd21xx_foreground_write_start ==
    /\ bpc = "rts_start"
    /\ UNCHANGED notBlobVars
    /\ ispLog' = Append(ispLog, Isp("fw-update-start"))
    /\ \/ \E e \in IoFailures :
          /\ WriteFails(PrefixError(e, "failed to send fw update start cmd: "))
          /\ UNCHANGED <<progDone, chunk>>
       \/ /\ ~unplugged
          /\ progDone' = 1
          /\ chunk' = 0
          /\ bpc' = "rts_chunk"
          /\ UNCHANGED <<berr, writeFailed>>
    /\ UNCHANGED <<optVars, prepared, cleanedUp, devVars, retryVars, resetVars,
                   progSteps, progChild>>

\* one turn of the chunk loop: read the status, write the chunk, set the child
\* percentage; after the last chunk the second step is done
fu_rts54hub_rtd21xx_foreground_write_chunk ==
    /\ bpc = "rts_chunk"
    /\ UNCHANGED notBlobVars
    /\ IF chunk < MaxBody
       THEN \/ \E e \in IoFailures :
               /\ WriteFails(e)
               /\ UNCHANGED <<ispLog, chunk, progDone, progChild>>
            \/ \E e \in IoFailures :
               /\ ~unplugged
               /\ WriteFails(PrefixError(e, "failed to write @: "))
               /\ ispLog' = ispLog \o <<Isp("status"), IspData(chunk)>>
               /\ UNCHANGED <<chunk, progDone, progChild>>
            \/ /\ ~unplugged
               /\ ispLog' = ispLog \o <<Isp("status"), IspData(chunk)>>
               /\ chunk' = chunk + 1
               /\ progChild' = ((chunk + 1) * 100) \div MaxBody
               /\ UNCHANGED <<bpc, berr, writeFailed, progDone>>
       ELSE /\ progDone' = 2
            /\ progChild' = 0
            /\ bpc' = "rts_done"
            /\ UNCHANGED <<berr, writeFailed, ispLog, chunk>>
    /\ UNCHANGED <<optVars, prepared, cleanedUp, devVars, retryVars, resetVars, progSteps>>

\* read the status, ISP_CMD_FW_UPDATE_ISP_DONE, the last step is done
fu_rts54hub_rtd21xx_foreground_write_done ==
    /\ bpc = "rts_done"
    /\ UNCHANGED notBlobVars
    /\ \/ \E e \in IoFailures :
          /\ WriteFails(e)
          /\ UNCHANGED <<ispLog, progDone>>
       \/ \E e \in IoFailures :
          /\ ~unplugged
          /\ WriteFails(PrefixError(e, "failed update finish cmd: "))
          /\ ispLog' = ispLog \o <<Isp("status"), Isp("isp-done")>>
          /\ UNCHANGED progDone
       \/ /\ ~unplugged
          /\ ispLog' = ispLog \o <<Isp("status"), Isp("isp-done")>>
          /\ progDone' = 3
          /\ bpc' = "eng_attach"
          /\ UNCHANGED <<berr, writeFailed>>
    /\ UNCHANGED <<optVars, prepared, cleanedUp, devVars, chunk, retryVars, resetVars,
                   progSteps, progChild>>

\* --- fresco-pd: write_firmware -------------------------------------------

\* a reset that matches the wrong error code
fu_fresco_pd_device_panther_reset_device_wrongcode(io) ==
    IF io = NoError THEN NoError
    ELSE IF io.kind = "NotSupported" THEN NoError
    ELSE PrefixError(io, "failed to reset device: ")

\* fu_fresco_pd_device_panther_reset_device: the error it returns (NoError for
\* TRUE) when the update of the reset register returned io
fu_fresco_pd_device_panther_reset_device(io) ==
    IF io = NoError THEN NoError
    ELSE IF io.kind = "Internal" THEN NoError
    ELSE PrefixError(io, "failed to reset device: ")

\* fu_fresco_pd_device_or_byte: the error it returns (NoError for TRUE) when
\* the read of the register returned rd and the write of the updated value,
\* sent only after a successful read, returned wr
fu_fresco_pd_device_or_byte(rd, wr) ==
    IF rd # NoError THEN rd ELSE wr

\* progress steps, firmware bytes, start symbols
fu_fresco_pd_device_write_begin ==
    /\ bpc = "fresco_begin"
    /\ UNCHANGED notBlobVars
    /\ progSteps' = <<2, 50, 46, 2, 2>>
    /\ progDone' = 0
    /\ progChild' = 0
    /\ \/ /\ bpc' = "fresco_mcu"
          /\ UNCHANGED <<berr, writeFailed>>
       \/ WriteFails(Error("InvalidFile", "firmware bytes"))
    /\ UNCHANGED <<optVars, prepared, cleanedUp, devVars, ispLog, chunk, retryVars,
                   resetVars>>

\* disable MCU, and enable mtp write: three register updates, j of which
\* succeed before one fails
fu_fresco_pd_device_write_disable_mcu ==
    /\ bpc = "fresco_mcu"
    /\ UNCHANGED notBlobVars
    /\ \/ \E j \in 0..2, e \in IoFailures :
          /\ unplugged => j = 0
          /\ WriteFails(PrefixError(e, CASE j = 0 -> "failed to disable MCU bit 2: "
                                         [] j = 1 -> "failed to disable MCU bit 1: "
                                         [] OTHER -> "failed to disable MCU: "))
          /\ UNCHANGED updateMode
       \/ /\ ~unplugged
          /\ updateMode' = TRUE
          /\ bpc' = "fresco_safe_code"
          /\ UNCHANGED <<berr, writeFailed>>
    /\ UNCHANGED <<optVars, prepared, cleanedUp, unplugged, waitForReplug, attachCalled,
                   ispLog, chunk, retryVars, resetVars, progVars>>

\* fill safe code in the boot code; the first step is done
fu_fresco_pd_device_write_safe_code ==
    /\ bpc = "fresco_safe_code"
    /\ UNCHANGED notBlobVars
    /\ \/ \E e \in IoFailures :
          /\ WriteFails(e)
          /\ UNCHANGED <<progDone, chunk>>
       \/ /\ ~unplugged
          /\ progDone' = 1
          /\ chunk' = 0
          /\ bpc' = "fresco_body"
          /\ UNCHANGED <<berr, writeFailed>>
    /\ UNCHANGED <<optVars, prepared, cleanedUp, devVars, ispLog, retryVars, resetVars,
                   progSteps, progChild>>

\* one turn of the loop that copies the firmware body: set one byte, set the
\* child percentage; after the last byte the second step is done
fu_fresco_pd_device_write_body ==
    /\ bpc = "fresco_body"
    /\ UNCHANGED notBlobVars
    /\ IF chunk < MaxBody
       THEN \/ \E e \in IoFailures :
               /\ WriteFails(e)
               /\ UNCHANGED <<chunk, progDone, progChild>>
            \/ /\ ~unplugged
               /\ chunk' = chunk + 1
               /\ progChild' = ((chunk + 1) * 100) \div MaxBody
               /\ UNCHANGED <<bpc, berr, writeFailed, progDone>>
       ELSE /\ progDone' = 2
            /\ progChild' = 0
            /\ bpc' = "fresco_customize"
            /\ UNCHANGED <<berr, writeFailed, chunk>>
    /\ UNCHANGED <<optVars, prepared, cleanedUp, devVars, ispLog, retryVars, resetVars,
                   progSteps>>

\* update customize data; the third step is done
fu_fresco_pd_device_write_customize ==
    /\ bpc = "fresco_customize"
    /\ UNCHANGED notBlobVars
    /\ \/ \E e \in IoFailures :
          /\ WriteFails(e)
          /\ UNCHANGED progDone
       \/ /\ ~unplugged
          /\ progDone' = 3
          /\ bpc' = "fresco_boot"
          /\ UNCHANGED <<berr, writeFailed>>
    /\ UNCHANGED <<optVars, prepared, cleanedUp, devVars, ispLog, chunk, retryVars,
                   resetVars, progSteps, progChild>>

\* write boot configuration area; the fourth step is done
fu_fresco_pd_device_write_boot ==
    /\ bpc = "fresco_boot"
    /\ UNCHANGED notBlobVars
    /\ \/ \E e \in IoFailures :
          /\ WriteFails(e)
          /\ UNCHANGED progDone
       \/ /\ ~unplugged
          /\ progDone' = 4
          /\ bpc' = "fresco_reset"
          /\ UNCHANGED <<berr, writeFailed>>
    /\ UNCHANGED <<optVars, prepared, cleanedUp, devVars, ispLog, chunk, retryVars,
                   resetVars, progSteps, progChild>>

\* reset the device; the last step is done
fu_fresco_pd_device_write_reset ==
    /\ bpc = "fresco_reset"
    /\ UNCHANGED notBlobVars
    /\ waitForReplug' = TRUE
    /\ \E rd \in Io, wr \in Io :
        LET io == fu_fresco_pd_device_or_byte(rd, wr)
            e == fu_fresco_pd_device_panther_reset_device(io)
        IN  /\ resetIo' = IF io = NoError THEN "ok" ELSE io.kind
            /\ resetWritten' = (rd = NoError)
            /\ IF e = NoError
               THEN /\ progDone' = 5
                    /\ bpc' = "eng_attach"
                    /\ UNCHANGED <<berr, writeFailed>>
               ELSE /\ WriteFails(e)
                    /\ UNCHANGED progDone
    /\ UNCHANGED <<optVars, prepared, cleanedUp, updateMode, unplugged, attachCalled,
                   ispLog, chunk, retryVars, progSteps, progChild>>

BlobStep ==
    \/ fu_util_install_blob_begin
    \/ fu_util_install_blob_prepare
    \/ fu_util_install_blob_cleanup
    \/ fu_engine_install_blob_detach
    \/ fu_engine_install_blob_write
    \/ fu_engine_install_blob_failed
    \/ fu_engine_install_blob_attach
    \/ fu_engine_install_blob_reload
    \/ DeviceUnplug
    \/ fu_rts54hub_rtd21xx_foreground_detach
    \/ fu_rts54hub_rtd21xx_foreground_detach_retry
    \/ fu_rts54hub_rtd21xx_foreground_attach
    \/ fu_rts54hub_rtd21xx_foreground_write_begin
    \/ fu_rts54hub_rtd21xx_foreground_write_enter
    \/ fu_rts54hub_rtd21xx_foreground_write_project_id
    \/ fu_rts54hub_rtd21xx_foreground_write_sync
    \/ fu_rts54hub_rtd21xx_foreground_write_start
    \/ fu_rts54hub_rtd21xx_foreground_write_chunk
    \/ fu_rts54hub_rtd21xx_foreground_write_done
    \/ fu_fresco_pd_device_write_begin
    \/ fu_fresco_pd_device_write_disable_mcu
    \/ fu_fresco_pd_device_write_safe_code
    \/ fu_fresco_pd_device_write_body
    \/ fu_fresco_pd_device_write_customize
    \/ fu_fresco_pd_device_write_boot
    \/ fu_fresco_pd_device_write_reset

\* ------------------------------------------------------------------------
\* Properties of install-blob and of the two plugins
\* ------------------------------------------------------------------------

\* C1: when the firmware write fails after the device was switched into its
\* update mode, and the device is still plugged in, attach is issued on the
\* device before the failure is returned
C1_AttachBeforeFailure ==
    (bpc = "failed" /\ writeFailed /\ updateMode /\ ~unplugged) => attachCalled

\* C2: with --prepare and --cleanup, once composite_prepare has succeeded
\* composite_cleanup is invoked before install-blob returns, on every path
C2_CleanupAfterPrepare ==
    (bpc \in {"done", "failed"} /\ prepare_blob /\ cleanup_blob /\ prepared)
        => cleanedUp

\* C9: the fresco-pd reset step succeeds if and only if the update of the
\* reset register succeeded or failed with an Internal error; with any other
\* error write_firmware fails with that error, prefixed
\* "failed to reset device: "
C9_ResetIgnoresInternal ==
    (resetIo # "none") =>
        /\ (~writeFailed) <=> (resetIo \in {"ok", "Internal"})
        /\ writeFailed => /\ berr.kind = resetIo
                          /\ Head(berr.msg) = "failed to reset device: "

\* the reset register update failed with an Internal error and write_firmware
\* went on to finish its last step
C9_Witness ==
    /\ plugin = "fresco-pd"
    /\ resetIo = "Internal"
    /\ ~writeFailed
    /\ progDone = 5

\* C11: rts54hub foreground detach makes at most 100 attempts; it goes on
\* only while no attempt has read idle-success, returns success with the
\* first attempt that read idle-success, and when the retry loop returns
\* failure all 100 attempts were made and none of them read idle-success
C11_DetachAtMostHundredAttempts ==
    /\ tries <= DetachRetryCount
    /\ (bpc = "rts_detach_cb") => (lastDetach # "ok" /\ tries < DetachRetryCount)
    /\ (lastDetach = "ok") => detachStatus = "idle-success"
    /\ (bpc # "rts_detach_cb" /\ tries > 0 /\ lastDetach # "ok") =>
           /\ tries = DetachRetryCount
           /\ bpc \in {"eng_failed", "failed"}
           /\ berr # NoError

\* the hundredth attempt read a status that is not idle-success and detach
\* returned failure
C11_Witness ==
    /\ tries = DetachRetryCount
    /\ lastDetach = "status"
    /\ detachStatus = "busy"
    /\ bpc = "eng_failed"

\* C22: rts54hub foreground write_firmware issues enter-fw-update,
\* get-project-id-address, sync-identify-code, fw-update-start, then the
\* data chunks in ascending order, then isp-done; a successful status poll
\* comes immediately before every data chunk, and no data chunk is written
\* unless the project ID read-back reported idle-success
C22_IspCommandOrder ==
    LET issued == SelectSeq(ispLog,
                            LAMBDA e : e.cmd \notin {"status", "read-project-id"})
        order == <<Isp("enter-fw-update"), Isp("get-project-id-address"),
                   Isp("sync-identify-code"), Isp("fw-update-start")>>
                 \o [i \in 1..MaxBody |-> IspData(i - 1)]
                 \o <<Isp("isp-done"), Isp("fw-update-reset")>>
    IN  /\ Len(issued) <= Len(order)
        /\ issued = SubSeq(order, 1, Len(issued))
        /\ \A j \in DOMAIN ispLog :
               ispLog[j].cmd = "data" =>
                   /\ j > 1
                   /\ ispLog[j - 1] = Isp("status")
                   /\ \E k \in 1..(j - 1) :
                          ispLog[k] = [cmd |-> "read-project-id", arg |-> 1]
                   /\ \A k \in 1..(j - 1) :
                          ispLog[k] # [cmd |-> "read-project-id", arg |-> 0]

\* write_firmware returned TRUE after all the chunks and isp-done
C22_Witness ==
    /\ plugin = "rts54hub"
    /\ progDone = 3
    /\ ~writeFailed
    /\ \E j \in DOMAIN ispLog : ispLog[j] = IspData(MaxBody - 1)
    /\ ispLog[Len(ispLog)] = Isp("isp-done")

\* C23: when fresco-pd write_firmware returns failure, the device does not
\* carry wait-for-replug as a result of that call: the flag is added only once
\* the restart command was issued successfully.
C23_ReplugWaitOnlyAfterRestart ==
    (plugin = "fresco-pd" /\ writeFailed) => ~waitForReplug

\* C24: whenever the fresco-pd reset step returns success, a write setting
\* the reset bit (bit 3 of register 0xA003) was sent to the device.
C24_ResetSuccessMeansWritten ==
    (plugin = "fresco-pd" /\ resetIo # "none" /\ ~writeFailed) => resetWritten

\* C10: in rts54hub foreground detach a transport failure (of the detach write
\* or of the status read) is never followed by another attempt
C10_TransportFailureNotRetried == ~retriedAfterTransport

\* ------------------------------------------------------------------------
\* fwupdtool refresh: fu_util_refresh and fu_util_refresh_remote
\* ------------------------------------------------------------------------

\* number of remotes the engine knows
NRemotes == 2

RemoteIds == 1..NRemotes

\* what the refresh reads of a FwupdRemote
Remotes ==
    [enabled : BOOLEAN,           \* FWUPD_REMOTE_FLAG_ENABLED
     kind : {"download", "local"},
     needs_refresh : BOOLEAN,     \* fwupd_remote_needs_refresh
     uri_sig : BOOLEAN,           \* fwupd_remote_get_metadata_uri_sig != NULL
     uri : BOOLEAN]               \* fwupd_remote_get_metadata_uri != NULL

\* the error kinds a download or a load fails with
RefreshErrors == {"InvalidFile", "Internal"}

\* an entry of the log: what was done for which remote, and whether it worked
RefreshEvent(r, ev, ok) == [remote |-> r, ev |-> ev, ok |-> ok]

RefreshInit ==
    /\ rpc = "start"
    /\ remotes \in [RemoteIds -> Remotes]
    /\ rforce \in BOOLEAN
    /\ ri = 1
    /\ rlog = <<>>
    /\ rerr = NoError
    /\ applied = {}

\* fu_util_refresh_remote returns FALSE with error e, and so does fu_util_refresh
RefreshFails(e) ==
    /\ rpc' = "failed"
    /\ rerr' = e

\* fu_util_refresh: start the engine and get the remotes
fu_util_refresh_begin ==
    /\ rpc = "start"
    /\ UNCHANGED notRefreshVars
    /\ \/ /\ rpc' = "loop"
          /\ UNCHANGED rerr
       \/ \E k \in RefreshErrors : RefreshFails(Error(k, "engine"))
    /\ UNCHANGED <<remotes, rforce, ri, rlog, applied>>

\* a loop head that does not look at FWUPD_INSTALL_FLAG_FORCE
fu_util_refresh_loop_noforce ==
    /\ rpc = "loop"
    /\ UNCHANGED notRefreshVars
    /\ IF ri > NRemotes
       THEN /\ rpc' = "done"
            /\ UNCHANGED ri
       ELSE IF \/ ~remotes[ri].enabled
               \/ remotes[ri].kind # "download"
               \/ ~remotes[ri].needs_refresh
       THEN /\ ri' = ri + 1
            /\ UNCHANGED rpc
       ELSE /\ rpc' = "sig_uri"
            /\ UNCHANGED ri
    /\ UNCHANGED <<remotes, rforce, rlog, rerr, applied>>

\* fu_util_refresh: the head of the loop over the remotes
fu_util_refresh_loop ==
    /\ rpc = "loop"
    /\ UNCHANGED notRefreshVars
    /\ IF ri > NRemotes
       THEN /\ rpc' = "done"
            /\ UNCHANGED ri
       ELSE IF \/ ~remotes[ri].enabled
               \/ remotes[ri].kind # "download"
               \/ (~rforce /\ ~remotes[ri].needs_refresh)
       THEN /\ ri' = ri + 1
            /\ UNCHANGED rpc
       ELSE /\ rpc' = "sig_uri"
            /\ UNCHANGED ri
    /\ UNCHANGED <<remotes, rforce, rlog, rerr, applied>>

\* fu_util_refresh_remote: the signature URI
fu_util_refresh_remote_sig_uri ==
    /\ rpc = "sig_uri"
    /\ UNCHANGED notRefreshVars
    /\ IF ~remotes[ri].uri_sig
       THEN RefreshFails(Error("NothingToDo", "no metadata signature URI available for"))
       ELSE \/ /\ rpc' = "sig_download"
               /\ UNCHANGED rerr
            \/ \E k \in RefreshErrors : RefreshFails(Error(k, "build_metadata_sig_uri"))
    /\ UNCHANGED <<remotes, rforce, ri, rlog, applied>>

\* fu_util_refresh_remote: download the signature
fu_util_refresh_remote_sig_download ==
    /\ rpc = "sig_download"
    /\ UNCHANGED notRefreshVars
    /\ \/ /\ rlog' = Append(rlog, RefreshEvent(ri, "download-sig", TRUE))
          /\ rpc' = "sig_load"
          /\ UNCHANGED rerr
       \/ \E k \in RefreshErrors :
          /\ rlog' = Append(rlog, RefreshEvent(ri, "download-sig", FALSE))
          /\ RefreshFails(Error(k, "download"))
    /\ UNCHANGED <<remotes, rforce, ri, applied>>

\* a signature load whose failure is not looked at
fu_util_refresh_remote_sig_load_unchecked ==
    /\ rpc = "sig_load"
    /\ UNCHANGED notRefreshVars
    /\ \E ok \in BOOLEAN : rlog' = Append(rlog, RefreshEvent(ri, "load-sig", ok))
    /\ rpc' = "payload_uri"
    /\ UNCHANGED <<remotes, rforce, ri, rerr, applied>>

\* fu_util_refresh_remote: fwupd_remote_load_signature_bytes
fu_util_refresh_remote_sig_load ==
    /\ rpc = "sig_load"
    /\ UNCHANGED notRefreshVars
    /\ \/ /\ rlog' = Append(rlog, RefreshEvent(ri, "load-sig", TRUE))
          /\ rpc' = "payload_uri"
          /\ UNCHANGED rerr
       \/ \E k \in RefreshErrors :
          /\ rlog' = Append(rlog, RefreshEvent(ri, "load-sig", FALSE))
          /\ RefreshFails(Error(k, "load_signature_bytes"))
    /\ UNCHANGED <<remotes, rforce, ri, applied>>

\* fu_util_refresh_remote: the metadata URI
fu_util_refresh_remote_payload_uri ==
    /\ rpc = "payload_uri"
    /\ UNCHANGED notRefreshVars
    /\ IF ~remotes[ri].uri
       THEN RefreshFails(Error("NothingToDo", "no metadata URI available for"))
       ELSE \/ /\ rpc' = "payload_download"
               /\ UNCHANGED rerr
            \/ \E k \in RefreshErrors : RefreshFails(Error(k, "build_metadata_uri"))
    /\ UNCHANGED <<remotes, rforce, ri, rlog, applied>>

\* fu_util_refresh_remote: download the metadata
fu_util_refresh_remote_payload_download ==
    /\ rpc = "payload_download"
    /\ UNCHANGED notRefreshVars
    /\ \/ /\ rlog' = Append(rlog, RefreshEvent(ri, "download-metadata", TRUE))
          /\ rpc' = "update"
          /\ UNCHANGED rerr
       \/ \E k \in RefreshErrors :
          /\ rlog' = Append(rlog, RefreshEvent(ri, "download-metadata", FALSE))
          /\ RefreshFails(Error(k, "download"))
    /\ UNCHANGED <<remotes, rforce, ri, applied>>

\* fu_util_refresh_remote: fu_engine_update_metadata_bytes, which takes the
\* metadata or rejects it; then the next remote
fu_util_refresh_remote_update ==
    /\ rpc = "update"
    /\ UNCHANGED notRefreshVars
    /\ \/ /\ rlog' = Append(rlog, RefreshEvent(ri, "update-metadata", TRUE))
          /\ applied' = applied \cup {ri}
          /\ ri' = ri + 1
          /\ rpc' = "loop"
          /\ UNCHANGED rerr
       \/ \E k \in RefreshErrors :
          /\ rlog' = Append(rlog, RefreshEvent(ri, "update-metadata", FALSE))
          /\ RefreshFails(Error(k, "update_metadata_bytes"))
          /\ UNCHANGED <<applied, ri>>
    /\ UNCHANGED <<remotes, rforce>>

RefreshStep ==
    \/ fu_util_refresh_begin
    \/ fu_util_refresh_loop
    \/ fu_util_refresh_remote_sig_uri
    \/ fu_util_refresh_remote_sig_download
    \/ fu_util_refresh_remote_sig_load
    \/ fu_util_refresh_remote_payload_uri
    \/ fu_util_refresh_remote_payload_download
    \/ fu_util_refresh_remote_update

\* the log has the event (r, ev) with a good result before position j
DoneBefore(r, ev, j) ==
    \E i \in 1..(j - 1) : rlog[i] = RefreshEvent(r, ev, TRUE)

\* C6: for every remote the metadata is requested only after the signature
\* was downloaded and loaded, the metadata index is updated only after both
\* fetches succeeded, and after a failed signature step nothing of the
\* metadata of that remote is downloaded or applied
C6_SignatureBeforeMetadata ==
    /\ \A j \in DOMAIN rlog :
        /\ rlog[j].ev = "load-sig" => DoneBefore(rlog[j].remote, "download-sig", j)
        /\ rlog[j].ev = "download-metadata" =>
               DoneBefore(rlog[j].remote, "load-sig", j)
        /\ rlog[j].ev = "update-metadata" =>
               /\ DoneBefore(rlog[j].remote, "load-sig", j)
               /\ DoneBefore(rlog[j].remote, "download-metadata", j)
        /\ (rlog[j].ev \in {"download-sig", "load-sig"} /\ ~rlog[j].ok) =>
               /\ rlog[j].remote \notin applied
               /\ \A k \in DOMAIN rlog :
                      rlog[k].remote = rlog[j].remote =>
                          rlog[k].ev \notin {"download-metadata", "update-metadata"}
    /\ \A r \in applied :
           \E j \in DOMAIN rlog : rlog[j] = RefreshEvent(r, "update-metadata", TRUE)

\* one remote was refreshed completely and the signature of the next one
\* could not be loaded
C6_Witness ==
    /\ rpc = "failed"
    /\ applied = {1}
    /\ rlog[Len(rlog)] = RefreshEvent(2, "load-sig", FALSE)

\* C16: the refresh command refreshes an enabled download remote whenever
\* its metadata is older than its TTL and also whenever --force asks for it
\* although the metadata is not; a disabled remote and a remote that is not
\* of the download kind are never fetched
C16_RefreshWhenStaleOrForced ==
    LET due(r) == /\ remotes[r].enabled
                  /\ remotes[r].kind = "download"
                  /\ (remotes[r].needs_refresh \/ rforce)
    IN  /\ \A j \in DOMAIN rlog : due(rlog[j].remote)
        /\ \A r \in applied : due(r)
        /\ \A r \in RemoteIds : (rpc # "off" /\ r < ri /\ due(r)) => r \in applied
        /\ (rpc \in {"sig_uri", "sig_download", "sig_load", "payload_uri",
                     "payload_download", "update"}) => due(ri)

\* the command ended well having refreshed, because of --force, a remote
\* whose metadata is within its TTL, and having left a disabled one alone
C16_Witness ==
    /\ rpc = "done"
    /\ rforce
    /\ \E r \in applied : ~remotes[r].needs_refresh
    /\ \E r \in RemoteIds : ~remotes[r].enabled /\ r \notin applied

\* ------------------------------------------------------------------------
\* fwupdtool install: fu_util_install_stream
\* ------------------------------------------------------------------------

\* number of components of the cabinet and of devices passed in
NComponents == 2

NDevices == 2

\* the device priorities
Priorities == {0, 1}

Components == 1..NComponents

Devices == 1..NDevices

Pairs == [component : Components, device : Devices]

\* the error kinds fu_engine_load_release and fu_engine_requirements_check
\* fail with
LoadErrors == {"NotFound"}

ReqErrors == {"NotSupported"}

StreamInit ==
    /\ spc = "start"
    /\ si = 1
    /\ sj = 1
    /\ priority \in [Devices -> Priorities]
    /\ releases = <<>>
    /\ errors = <<>>
    /\ loadOk = {}
    /\ reqOk = {}
    /\ installCalled = FALSE
    /\ installed = <<>>
    /\ serr = NoError

\* fu_release_compare: release a goes before release b
fu_release_compare(a, b, prio) ==
    \/ prio[a.device] > prio[b.device]
    \/ prio[a.device] = prio[b.device] /\ a.device < b.device

\* g_ptr_array_sort(releases, fu_util_release_sort_cb)
RECURSIVE fu_util_release_sort(_, _)
fu_util_release_sort(rs, prio) ==
    IF rs = <<>> THEN <<>>
    ELSE LET x == rs[Len(rs)]
             sorted == fu_util_release_sort(SubSeq(rs, 1, Len(rs) - 1), prio)
             k == Cardinality({i \in DOMAIN sorted :
                                  ~fu_release_compare(x, sorted[i], prio)})
         IN  SubSeq(sorted, 1, k) \o <<x>> \o SubSeq(sorted, k + 1, Len(sorted))

\* fu_engine_error_array_get_best: the error of the pair that got furthest,
\* NotFound when there is none
fu_engine_error_array_get_best(errs) ==
    IF \E i \in DOMAIN errs : errs[i].kind \in ReqErrors
    THEN errs[CHOOSE i \in DOMAIN errs :
                  /\ errs[i].kind \in ReqErrors
                  /\ \A k \in 1..(i - 1) : errs[k].kind \notin ReqErrors]
    ELSE IF errs # <<>> THEN errs[1]
    ELSE Error("NotFound", "No supported devices found")

\* a loop body that takes the release whatever the requirements check said
fu_util_install_stream_pair_unchecked(load, req) ==
    IF load # NoError THEN [release |-> FALSE, error |-> load]
    ELSE [release |-> TRUE, error |-> NoError]

\* the body of the inner loop for one (component, device) pair: whether the
\* release is added, and the error that is added otherwise
fu_util_install_stream_pair(load, req) ==
    IF load # NoError THEN [release |-> FALSE, error |-> load]
    ELSE IF req # NoError THEN [release |-> FALSE, error |-> req]
    ELSE [release |-> TRUE, error |-> NoError]

\* fu_engine_build_cabinet_from_stream and fu_cabinet_get_components
fu_util_install_stream_begin ==
    /\ spc = "start"
    /\ UNCHANGED notStreamVars
    /\ \/ /\ spc' = "loop"
          /\ UNCHANGED serr
       \/ \E k \in {"InvalidFile", "NotSupported"} :
          /\ spc' = "failed"
          /\ serr' = Error(k, "cabinet")
    /\ UNCHANGED <<si, sj, priority, releases, errors, loadOk, reqOk, installCalled,
                   installed>>

\* one turn of the inner loop, for component si and device sj
fu_util_install_stream_loop ==
    /\ spc = "loop"
    /\ si <= NComponents
    /\ UNCHANGED notStreamVars
    /\ \E load \in {NoError} \cup {Error(k, "load_release") : k \in LoadErrors},
          req \in {NoError} \cup {Error(k, "requirements_check") : k \in ReqErrors} :
        LET pair == [component |-> si, device |-> sj]
            o == fu_util_install_stream_pair(load, req)
        IN  /\ loadOk' = IF load = NoError THEN loadOk \cup {pair} ELSE loadOk
            /\ reqOk' = IF load = NoError /\ req = NoError
                        THEN reqOk \cup {pair} ELSE reqOk
            /\ releases' = IF o.release THEN Append(releases, pair) ELSE releases
            /\ errors' = IF o.release THEN errors ELSE Append(errors, o.error)
    /\ IF sj < NDevices
       THEN /\ sj' = sj + 1
            /\ UNCHANGED si
       ELSE /\ sj' = 1
            /\ si' = si + 1
    /\ UNCHANGED <<spc, priority, installCalled, installed, serr>>

\* an end of fu_util_install_stream that installs whatever the list holds
fu_util_install_stream_install_always ==
    /\ spc = "loop"
    /\ si > NComponents
    /\ UNCHANGED notStreamVars
    /\ releases' = fu_util_release_sort(releases, priority)
    /\ installCalled' = TRUE
    /\ installed' = releases'
    /\ \/ /\ spc' = "done"
          /\ UNCHANGED serr
       \/ \E k \in {"Internal", "NothingToDo"} :
          /\ spc' = "failed"
          /\ serr' = Error(k, "install_releases")
    /\ UNCHANGED <<si, sj, priority, errors, loadOk, reqOk>>

\* after the loops: sort, fail if nothing is suitable, else install
fu_util_install_stream_install ==
    /\ spc = "loop"
    /\ si > NComponents
    /\ UNCHANGED notStreamVars
    /\ releases' = fu_util_release_sort(releases, priority)
    /\ IF Len(releases) = 0
       THEN /\ serr' = fu_engine_error_array_get_best(errors)
            /\ spc' = "failed"
            /\ UNCHANGED <<installCalled, installed>>
       ELSE /\ installCalled' = TRUE
            /\ installed' = releases'
            /\ \/ /\ spc' = "done"
                  /\ UNCHANGED serr
               \/ \E k \in {"Internal", "NothingToDo"} :
                  /\ spc' = "failed"
                  /\ serr' = Error(k, "install_releases")
    /\ UNCHANGED <<si, sj, priority, errors, loadOk, reqOk>>

StreamStep ==
    \/ fu_util_install_stream_begin
    \/ fu_util_install_stream_loop
    \/ fu_util_install_stream_install

\* the elements of a sequence
Range(s) == {s[i] : i \in DOMAIN s}

\* C7: the releases given to fu_engine_install_releases are exactly the
\* (component, device) pairs for which both fu_engine_load_release and
\* fu_engine_requirements_check succeeded, each of them once; a pair that
\* failed either check is in no list of releases
C7_InstalledPassedBothChecks ==
    /\ Range(releases) \subseteq (loadOk \cap reqOk)
    /\ installCalled =>
           /\ Range(installed) = loadOk \cap reqOk
           /\ Len(installed) = Cardinality(loadOk \cap reqOk)
    /\ ~installCalled => installed = <<>>

\* an install of two releases, where the release of a third pair did not load
\* and a fourth pair did not meet the requirements
C7_Witness ==
    /\ installCalled
    /\ Len(installed) = 2
    /\ Cardinality(loadOk) = 3
    /\ Len(errors) = 2

\* C17: when no (component, device) pair passed both the release loading
\* and the requirements check, fu_util_install_stream fails with the one
\* best error of those collected for the rejected pairs, and
\* fu_engine_install_releases is not called
C17_NoneSuitableBestError ==
    (spc \notin {"off", "loop"} /\ si > NComponents /\ loadOk \cap reqOk = {}) =>
        /\ spc = "failed"
        /\ ~installCalled
        /\ installed = <<>>
        /\ Len(errors) = NComponents * NDevices
        /\ serr \in Range(errors)
        /\ serr = fu_engine_error_array_get_best(errors)

\* every pair was rejected, the first one when its release was loaded, a
\* later one by the requirements check, whose error is the one returned
C17_Witness ==
    /\ spc = "failed"
    /\ si > NComponents
    /\ releases = <<>>
    /\ ~installCalled
    /\ errors[1].kind \in LoadErrors
    /\ \E i \in DOMAIN errors : errors[i].kind \in ReqErrors
    /\ serr.kind \in ReqErrors

\* ------------------------------------------------------------------------
\* switch-branch: fu_util_switch_branch of fwupdtool (fu-tool.c) and of
\* fwupdmgr (fu-util.c), with the device selection each of them uses
\* ------------------------------------------------------------------------

\* number of devices
NBranchDevices == 2

BranchDevices == 1..NBranchDevices

\* the branch names; "default" is the NULL branch
Branches == {"default", "free"}

\* what switch-branch reads of a device
BranchDevice ==
    [multi : BOOLEAN,        \* FWUPD_DEVICE_FLAG_HAS_MULTIPLE_BRANCHES
     updatable : BOOLEAN,    \* FWUPD_DEVICE_FLAG_UPDATABLE
     branch : Branches]

\* the forms of values[0]: a device id, a GUID, or a string with a '-' that
\* is no GUID
IdForms == {"id", "guid", "dashed"}

\* values: n arguments; the first one, of the given form, names device dev;
\* the second one is a branch name
Values == [n : 0..2, form : IdForms, dev : BranchDevices, branch : Branches]

NoValues == [n |-> 0, form |-> "id", dev |-> 1, branch |-> "default"]

BranchInit ==
    /\ sbpc = "start"
    /\ sbcli \in {"fwupdtool", "fwupdmgr"}
    /\ sbdevices \in [BranchDevices -> BranchDevice]
    /\ sbvalues = NoValues
    /\ sbdev = 0
    /\ sbbranch = "none"
    /\ sbflags = {}
    /\ sbinstalled = FALSE
    /\ sberr = NoError

\* fwupd_device_array_filter_flags with filter_device_include =
\* HAS_MULTIPLE_BRANCHES | UPDATABLE
fwupd_device_array_filter_flags(devs) ==
    {d \in devs : sbdevices[d].multi /\ sbdevices[d].updatable}

\* fu_util_prompt_for_device on the devices devs: the possible results
\* [dev, err], with dev = 0 when it fails
fu_util_prompt_for_device(devs, no_device_prompt) ==
    LET filtered == fwupd_device_array_filter_flags(devs)
    IN  IF filtered = {}
        THEN {[dev |-> 0, err |-> Error("NothingToDo", "no devices after filter")]}
        ELSE IF Cardinality(filtered) = 1
        THEN {[dev |-> d, err |-> NoError] : d \in filtered}
        ELSE IF no_device_prompt
        THEN {[dev |-> 0, err |-> Error("NotFound", "can't prompt for devices")]}
        ELSE {[dev |-> 0, err |-> Error("NothingToDo", "Request canceled")]}
             \cup {[dev |-> d, err |-> NoError] : d \in filtered}

\* fu_util_get_device (fwupdtool) and fu_util_get_device_by_id (fwupdmgr) for
\* a non-NULL id: a GUID goes through the prompt and its filter, a device id
\* goes straight to the engine or the daemon
fu_util_get_device_by_id(v, no_device_prompt) ==
    CASE v.form = "guid" ->
             UNION {fu_util_prompt_for_device(devs, no_device_prompt) :
                        devs \in {ds \in SUBSET BranchDevices : v.dev \in ds}}
                 \cup {[dev |-> 0, err |-> Error("NotFound", "get_devices_by_guid")]}
      [] v.form = "dashed" ->
             {[dev |-> 0, err |-> Error("InvalidArgs", "Invalid arguments")]}
      [] OTHER ->
             {[dev |-> v.dev, err |-> NoError],
              [dev |-> 0, err |-> Error("NotFound", "get_device_by_id")]}

\* the command returns FALSE with error e
BranchFails(e) ==
    /\ sbpc' = "failed"
    /\ sberr' = e

\* the device selection ended with result o
BranchSelected(o) ==
    IF o.dev = 0
    THEN /\ BranchFails(o.err)
         /\ UNCHANGED sbdev
    ELSE /\ sbdev' = o.dev
         /\ sbpc' = "check"
         /\ UNCHANGED sberr

\* fwupdtool: start the engine, then find the device
fu_util_switch_branch_tool_select ==
    /\ sbpc = "start"
    /\ sbcli = "fwupdtool"
    /\ UNCHANGED notBranchVars
    /\ \E v \in Values, no_device_prompt \in BOOLEAN :
        /\ sbvalues' = v
        /\ \/ \* fu_util_start_engine or fu_engine_get_devices failed
              /\ BranchFails(Error("NotSupported", "engine"))
              /\ UNCHANGED sbdev
           \/ IF v.n = 1
              THEN \* fu_util_get_device(self, values[1], ...): values[1] is
                   \* the NULL that ends the array, and the loop over id[i]
                   \* reads through it
                   /\ sbpc' = "crashed"
                   /\ UNCHANGED <<sbdev, sberr>>
              ELSE \E o \in fu_util_prompt_for_device(BranchDevices, no_device_prompt) :
                       BranchSelected(o)
    /\ UNCHANGED <<sbcli, sbdevices, sbbranch, sbflags, sbinstalled>>

\* fwupdmgr: fu_util_get_device_or_prompt
fu_util_switch_branch_mgr_select ==
    /\ sbpc = "start"
    /\ sbcli = "fwupdmgr"
    /\ UNCHANGED notBranchVars
    /\ \E v \in Values, no_device_prompt \in BOOLEAN, as_json \in BOOLEAN :
        /\ sbvalues' = v
        /\ IF v.n >= 1
           THEN \E o \in fu_util_get_device_by_id(v, no_device_prompt) :
                    BranchSelected(o)
           ELSE IF as_json
           THEN /\ BranchFails(Error("InvalidArgs", "device ID required"))
                /\ UNCHANGED sbdev
           ELSE \/ /\ BranchFails(Error("Internal", "get_devices"))
                   /\ UNCHANGED sbdev
                \/ \E o \in fu_util_prompt_for_device(BranchDevices, no_device_prompt) :
                       BranchSelected(o)
    /\ UNCHANGED <<sbcli, sbdevices, sbbranch, sbflags, sbinstalled>>

\* fwupdtool only: if (!fu_device_has_flag(dev, HAS_MULTIPLE_BRANCHES))
fu_util_switch_branch_check ==
    /\ sbpc = "check"
    /\ UNCHANGED notBranchVars
    /\ IF sbcli = "fwupdtool" /\ ~sbdevices[sbdev].multi
       THEN BranchFails(Error("NotSupported", "Multiple branches not available"))
       ELSE /\ sbpc' = "releases"
            /\ UNCHANGED sberr
    /\ UNCHANGED <<sbcli, sbdevices, sbvalues, sbdev, sbbranch, sbflags, sbinstalled>>

\* the releases of the device, the destination branch, the sanity check, the
\* release on that branch and the warning; rels is the set of branches the
\* device has releases on
fu_util_switch_branch_choose ==
    /\ sbpc = "releases"
    /\ UNCHANGED notBranchVars
    /\ \/ \* no releases
          /\ BranchFails(Error("NothingToDo", "get_releases"))
          /\ UNCHANGED sbbranch
       \/ \E rels \in SUBSET Branches, idx \in Branches \cup {"cancel"},
             agreed \in BOOLEAN :
          /\ rels # {}
          /\ idx \in rels \cup {"cancel"}
          /\ IF sbvalues.n <= 1 /\ Cardinality(rels) # 1 /\ idx = "cancel"
             THEN /\ BranchFails(Error("NothingToDo", "Request canceled"))
                  /\ UNCHANGED sbbranch
             ELSE LET branch == IF sbvalues.n > 1 THEN sbvalues.branch
                                ELSE IF Cardinality(rels) = 1
                                THEN CHOOSE b \in rels : TRUE
                                ELSE idx
                  IN  /\ branch # "cancel"
                      /\ sbbranch' = branch
                      /\ IF branch = sbdevices[sbdev].branch
                         THEN BranchFails(Error("NotSupported", "is already on branch"))
                         ELSE IF branch \notin rels
                         THEN BranchFails(Error("NotSupported", "No releases for branch"))
                         ELSE IF ~agreed
                         THEN BranchFails(Error("NothingToDo", "Declined branch switch"))
                         ELSE /\ sbpc' = "install"
                              /\ UNCHANGED sberr
    /\ UNCHANGED <<sbcli, sbdevices, sbvalues, sbdev, sbflags, sbinstalled>>

\* self->flags |= ALLOW_REINSTALL | ALLOW_BRANCH_SWITCH, then the install
fu_util_switch_branch_install ==
    /\ sbpc = "install"
    /\ UNCHANGED notBranchVars
    /\ sbflags' = sbflags \cup {"allow-reinstall", "allow-branch-switch"}
    /\ sbinstalled' = TRUE
    /\ \/ /\ sbpc' = "done"
          /\ UNCHANGED sberr
       \/ BranchFails(Error("Internal", "install"))
    /\ UNCHANGED <<sbcli, sbdevices, sbvalues, sbdev, sbbranch>>

BranchStep ==
    \/ fu_util_switch_branch_tool_select
    \/ fu_util_switch_branch_mgr_select
    \/ fu_util_switch_branch_check
    \/ fu_util_switch_branch_choose
    \/ fu_util_switch_branch_install

\* C8: switch-branch issues an install only if the selected device carries
\* has-multiple-branches and the destination branch differs from the branch
\* the device is on, and that install carries allow-branch-switch; in every
\* other case the command fails and has installed nothing
C8_InstallOnlyOnMultiBranchDevice ==
    /\ sbinstalled =>
           /\ sbdevices[sbdev].multi
           /\ sbbranch # sbdevices[sbdev].branch
           /\ "allow-branch-switch" \in sbflags
    /\ (sbpc = "done") => sbinstalled

\* C30: fwupdtool switch-branch given a device id as its first argument, with
\* or without a branch name after it, operates on exactly that device: it
\* never looks up an argument that is not there and never prompts for or
\* selects another device.
C30_ToolSwitchBranchOnGivenDevice ==
    (sbcli = "fwupdtool" /\ sbvalues.n >= 1 /\ sbvalues.form = "id") =>
        /\ sbpc # "crashed"
        /\ sbdev # 0 => sbdev = sbvalues.dev

\* ------------------------------------------------------------------------
\* fwupdtool update: fu_util_update, fu_util_install_release, fu_util_install
\* and the root FuProgress they share
\* ------------------------------------------------------------------------

\* number of devices the engine returns
NUpdateDevices == 2

UpdateDevices == 1..NUpdateDevices

\* the error kinds an install fails with
InstallErrors == {"NothingToDo", "Internal", "NotFound"}

\* the step weights fu_util_install gives self->progress
fu_util_install_steps == <<50, 50>>

\* what the loop reads of a device before it calls fu_util_install_release
UpdateDevice == [updatable : BOOLEAN]

RECURSIVE SumTo(_, _)
SumTo(ws, n) == IF n = 0 THEN 0 ELSE ws[n] + SumTo(ws, n - 1)

\* fu_progress_step_done: the percentage of a node once n of its steps are
\* done
fu_progress_step_done(ws, n) == (SumTo(ws, n) * 100) \div SumTo(ws, Len(ws))

\* fu_progress_reset: the node has no percentage and no steps any more
fu_progress_reset == -1

UpdateInit ==
    /\ upc = "start"
    /\ ui = 1
    /\ udev = [updatable |-> FALSE]
    /\ rootPct = fu_progress_reset
    /\ rootLog = <<>>
    /\ uoutcome = [d \in UpdateDevices |-> "none"]
    /\ uerr = NoError

\* the loop goes on with the next device, this one having ended as o
UpdateContinue(o) ==
    /\ uoutcome' = [uoutcome EXCEPT ![ui] = o]
    /\ ui' = ui + 1
    /\ upc' = "loop"

\* fu_util_update: the flags, the engine, the arguments, the devices
fu_util_update_begin ==
    /\ upc = "start"
    /\ UNCHANGED notUpdateVars
    /\ \/ /\ upc' = "loop"
          /\ UNCHANGED uerr
       \/ \E k \in {"InvalidArgs", "NotSupported"} :
          /\ upc' = "failed"
          /\ uerr' = Error(k, "update")
    /\ UNCHANGED <<ui, udev, rootPct, rootLog, uoutcome>>

\* fu_util_update: one turn of the loop over the devices, up to the call of
\* fu_util_install_release; after the loop, the lists and the final prompt
fu_util_update_loop ==
    /\ upc = "loop"
    /\ UNCHANGED notUpdateVars
    /\ IF ui > NUpdateDevices
       THEN /\ \/ /\ upc' = "done"
                  /\ UNCHANGED uerr
               \/ /\ upc' = "failed"
                  /\ uerr' = Error("Internal", "prompt_complete")
            /\ UNCHANGED <<ui, udev, uoutcome>>
       ELSE \/ \* not asked for, not interesting, neither updatable nor
               \* updatable-hidden, or filtered out
               /\ UpdateContinue("skipped")
               /\ UNCHANGED <<udev, uerr>>
            \/ \E o \in {"unsupported", "latest", "pending"} :
               /\ UpdateContinue(o)
               /\ UNCHANGED <<udev, uerr>>
            \/ \* the user turned the warning down
               /\ upc' = "failed"
               /\ uerr' = Error("NothingToDo", "Request canceled")
               /\ UNCHANGED <<ui, udev, uoutcome>>
            \/ \E d \in UpdateDevice :
               /\ udev' = d
               /\ upc' = "install_release"
               /\ UNCHANGED <<ui, uoutcome, uerr>>
    /\ UNCHANGED <<rootPct, rootLog>>

\* fu_util_install_release: the checks, then fu_progress_reset(self->progress)
fu_util_install_release ==
    /\ upc = "install_release"
    /\ UNCHANGED notUpdateVars
    /\ IF ~udev.updatable
       THEN /\ UpdateContinue("NothingToDo")
            /\ UNCHANGED rootPct
       ELSE \/ \E k \in {"InvalidFile", "NotFound"} :
               /\ UpdateContinue(k)
               /\ UNCHANGED rootPct
            \/ /\ rootPct' = fu_progress_reset
               /\ upc' = "install"
               /\ UNCHANGED <<ui, uoutcome>>
    /\ UNCHANGED <<udev, rootLog, uerr>>

\* fu_util_install: the two steps, the engine (loaded already) and the first
\* fu_progress_step_done; then the devices and the file
fu_util_install_begin ==
    /\ upc = "install"
    /\ UNCHANGED notUpdateVars
    /\ \/ \* fu_util_start_engine failed
          /\ UpdateContinue("Internal")
          /\ UNCHANGED <<rootPct, rootLog>>
       \/ /\ rootPct' = fu_progress_step_done(fu_util_install_steps, 1)
          /\ rootLog' = Append(rootLog, rootPct')
          /\ \/ /\ upc' = "install_stream"
                /\ UNCHANGED <<ui, uoutcome>>
             \/ \E k \in InstallErrors : UpdateContinue(k)
    /\ UNCHANGED <<udev, uerr>>

\* fu_util_install: fu_util_install_stream and the second
\* fu_progress_step_done
fu_util_install_finish ==
    /\ upc = "install_stream"
    /\ UNCHANGED notUpdateVars
    /\ \/ /\ rootPct' = fu_progress_step_done(fu_util_install_steps, 2)
          /\ rootLog' = Append(rootLog, rootPct')
          /\ UpdateContinue("installed")
       \/ \E k \in InstallErrors :
          /\ UpdateContinue(k)
          /\ UNCHANGED <<rootPct, rootLog>>
    /\ UNCHANGED <<udev, uerr>>

UpdateStep ==
    \/ fu_util_update_begin
    \/ fu_util_update_loop
    \/ fu_util_install_release
    \/ fu_util_install_begin
    \/ fu_util_install_finish

\* C12: the percentages one progress node emits within one command never
\* decrease; here the node is self->progress, which fwupdtool update uses
\* again for each device it installs on
C12_RootPercentageNeverDecreases ==
    \A i, j \in DOMAIN rootLog : i < j => rootLog[i] <= rootLog[j]

\* C13: a progress node that declares child steps has child weights that
\* sum to exactly 100; here the node is the one handed to the plugin's
\* write_firmware
C13_StepWeightsSumToHundred ==
    (progSteps # <<>>) => SumTo(progSteps, Len(progSteps)) = 100

\* C25: if the install on any device fails during an update run with an error
\* other than NothingToDo, the update command returns failure (and the
\* process exits with a non-zero code); here the command is fwupdtool update.
C25_InstallFailureFailsUpdate ==
    (upc = "done") =>
        \A i \in UpdateDevices :
            uoutcome[i] \notin {"Internal", "InvalidFile", "NotFound"}

\* ------------------------------------------------------------------------
\* fwupdmgr: fu_util_maybe_send_reports, fu_util_report_history_full,
\* fu_util_report_history_for_remote, fu_util_report_history_force
\* ------------------------------------------------------------------------

\* number of remotes the daemon knows
NReportRemotes == 2

ReportRemoteIds == 1..NReportRemotes

\* number of devices in the history of the daemon
NReportDevices == 2

ReportDeviceIds == 1..NReportDevices

\* what is read of a remote: FWUPD_REMOTE_FLAG_AUTOMATIC_REPORTS, and
\* whether it has a report URI
ReportRemote == [automatic_reports : BOOLEAN, report_uri : BOOLEAN]

\* the error kinds the daemon calls of the upload fail with
ReportErrors == {"NothingToDo", "NotSupported", "Internal"}

ReportInit ==
    /\ rppc = "start"
    /\ rprel \in {0} \cup ReportRemoteIds
    /\ rpremotes \in [ReportRemoteIds -> ReportRemote]
    /\ rpflags \in [assume_yes : BOOLEAN, force : BOOLEAN]
    /\ rponly = FALSE
    /\ rpi = 1
    /\ rpcnt = 0
    /\ rpupload = [remote |-> 0, from |-> "none"]
    /\ rpprompts = {}
    /\ rpuploads = {}
    /\ rpdevices \in [ReportDeviceIds -> {0} \cup ReportRemoteIds]
    /\ rpincluded = {}
    /\ rpreported = {}
    /\ rperr = NoError

\* fwupd_client_build_report_history: the devices of the report built for
\* the remote filter, 0 for no filter; a report holds the devices whose
\* release came from that remote
fwupd_client_build_report_history(devices, filter) ==
    {d \in DOMAIN devices : filter = 0 \/ devices[d] = filter}

\* fu_util_report_history returned FALSE with e
ReportFails(e) ==
    /\ rperr' = e
    /\ rppc' = "warned"

\* the loop that marks each device as reported: every device is marked, or
\* fwupd_client_modify_device fails after the first j of them
ReportMarkEach ==
    \/ /\ rpreported' = ReportDeviceIds
       /\ rppc' = "done"
       /\ UNCHANGED rperr
    \/ \E j \in 0..(NReportDevices - 1) :
       /\ rpreported' = 1..j
       /\ ReportFails(Error("Internal", "modify_device"))

\* fu_util_maybe_send_reports up to the call of fu_util_report_history, which
\* hands FALSE to fu_util_report_history_full
fu_util_maybe_send_reports ==
    /\ rppc = "start"
    /\ UNCHANGED notReportVars
    /\ IF rprel = 0
       THEN /\ rppc' = "done"
            /\ UNCHANGED <<rponly, rperr>>
       ELSE \/ \* fwupd_client_get_remote_by_id failed
               /\ rppc' = "failed"
               /\ rperr' = Error("NotFound", "remote")
               /\ UNCHANGED rponly
            \/ IF rpremotes[rprel].automatic_reports
               THEN /\ rppc' = "history"
                    /\ rponly' = FALSE
                    /\ UNCHANGED rperr
               ELSE /\ rppc' = "done"
                    /\ UNCHANGED <<rponly, rperr>>
    /\ UNCHANGED <<rprel, rpremotes, rpflags, rpi, rpcnt, rpupload, rpprompts,
                   rpuploads, rpdevVars>>

\* fu_util_report_history_full: the history and the remotes of the daemon
fu_util_report_history_full_begin ==
    /\ rppc = "history"
    /\ UNCHANGED notReportVars
    /\ \/ \E k \in ReportErrors : ReportFails(Error(k, "history"))
       \/ /\ rppc' = "loop"
          /\ UNCHANGED rperr
    /\ UNCHANGED <<rprel, rpremotes, rpflags, rponly, rpi, rpcnt, rpupload,
                   rpprompts, rpuploads, rpdevVars>>

\* fu_util_report_history_full: one turn of the loop over the remotes up to
\* the call of fu_util_report_history_for_remote; after the loop, the count
\* and the reported flags
fu_util_report_history_full_loop ==
    /\ rppc = "loop"
    /\ UNCHANGED notReportVars
    /\ IF rpi > NReportRemotes
       THEN /\ IF rpcnt = 0
               THEN IF ~rponly /\ rpflags.force
                    THEN /\ rppc' = "force"
                         /\ UNCHANGED <<rperr, rpreported>>
                    ELSE /\ ReportFails(Error("NothingToDo",
                                              "No reports require uploading"))
                         /\ UNCHANGED rpreported
               ELSE ReportMarkEach
            /\ UNCHANGED <<rpi, rpupload>>
       ELSE IF rponly /\ ~rpremotes[rpi].automatic_reports
            THEN /\ rpi' = rpi + 1
                 /\ UNCHANGED <<rppc, rpupload, rperr, rpreported>>
            ELSE /\ rpupload' = [remote |-> rpi, from |-> "loop"]
                 /\ rppc' = "for_remote"
                 /\ UNCHANGED <<rpi, rperr, rpreported>>
    /\ UNCHANGED <<rprel, rpremotes, rpflags, rponly, rpcnt, rpprompts,
                   rpuploads, rpdevices, rpincluded>>

\* fu_util_report_history_force: the remote every report goes to
fu_util_report_history_force ==
    /\ rppc = "force"
    /\ UNCHANGED notReportVars
    /\ \/ /\ ReportFails(Error("NotFound", "lvfs"))
          /\ UNCHANGED rpupload
       \/ \E l \in ReportRemoteIds :
          /\ rpupload' = [remote |-> l, from |-> "force"]
          /\ rppc' = "for_remote"
          /\ UNCHANGED rperr
    /\ UNCHANGED <<rprel, rpremotes, rpflags, rponly, rpi, rpcnt, rpprompts,
                   rpuploads, rpdevVars>>

\* fu_util_report_history_for_remote, and what its caller does with the
\* result
fu_util_report_history_for_remote ==
    /\ rppc = "for_remote"
    /\ UNCHANGED notReportVars
    /\ LET r == rpupload.remote
           data == fwupd_client_build_report_history(
                       rpdevices, IF rpupload.from = "loop" THEN r ELSE 0)
           asks == ~rpflags.assume_yes /\ ~rpremotes[r].automatic_reports
           asked == IF asks THEN rpprompts \cup {r} ELSE rpprompts
           Returns(e) ==
               /\ UNCHANGED <<rpincluded, rpreported>>
               /\ IF rpupload.from = "loop" /\ e.kind = "NothingToDo"
                  THEN /\ rpi' = rpi + 1
                       /\ rppc' = "loop"
                       /\ UNCHANGED <<rpcnt, rperr>>
                  ELSE /\ ReportFails(e)
                       /\ UNCHANGED <<rpi, rpcnt>>
       IN  \/ \* the metadata, the report or the signature
              \E k \in ReportErrors :
              /\ Returns(Error(k, "report"))
              /\ UNCHANGED <<rpprompts, rpuploads>>
           \/ \* no device for the report
              /\ data = {}
              /\ Returns(Error("NothingToDo", "report"))
              /\ UNCHANGED <<rpprompts, rpuploads>>
           \/ /\ data # {}
              /\ ~rpremotes[r].report_uri
              /\ Returns(Error("NotSupported", "report_uri"))
              /\ UNCHANGED <<rpprompts, rpuploads>>
           \/ /\ data # {}
              /\ rpremotes[r].report_uri
              /\ asks
              /\ rpprompts' = asked
              /\ Returns(Error("PermissionDenied", "User declined action"))
              /\ UNCHANGED rpuploads
           \/ /\ data # {}
              /\ rpremotes[r].report_uri
              /\ rpprompts' = asked
              /\ \/ /\ Returns(Error("Internal", "upload"))
                    /\ UNCHANGED rpuploads
                 \/ /\ rpuploads' = rpuploads \cup {r}
                    /\ rpincluded' = rpincluded \cup data
                    /\ IF rpupload.from = "loop"
                       THEN /\ rpcnt' = rpcnt + 1
                            /\ rpi' = rpi + 1
                            /\ rppc' = "loop"
                            /\ UNCHANGED <<rperr, rpreported>>
                       ELSE /\ ReportMarkEach
                            /\ UNCHANGED <<rpi, rpcnt>>
    /\ UNCHANGED <<rprel, rpremotes, rpflags, rponly, rpupload, rpdevices>>

ReportStep ==
    \/ fu_util_maybe_send_reports
    \/ fu_util_report_history_full_begin
    \/ fu_util_report_history_full_loop
    \/ fu_util_report_history_force
    \/ fu_util_report_history_for_remote

\* C14: the upload fwupdmgr makes by itself after an install never asks the
\* user and posts only to remotes that carry automatic-reports
C14_AutomaticUploadNeverPrompts ==
    /\ rpprompts = {}
    /\ \A r \in rpuploads : rpremotes[r].automatic_reports

\* C26: after fwupdmgr report-history (fu_util_report_history_full with
\* only_automatic_reports FALSE), a history device is marked as reported only
\* if a report that includes it was posted to some remote during that run.
C26_ReportedOnlyIfUploaded ==
    rpreported \subseteq rpincluded

\* ------------------------------------------------------------------------
\* fwupdmgr: fu_util_perhaps_refresh_remotes and fu_util_download_metadata
\* ------------------------------------------------------------------------

\* number of remotes the daemon knows
NMetadataRemotes == 2

MetadataRemoteIds == 1..NMetadataRemotes

\* what is read of a remote; old says its age is 30 days or more
MetadataRemote ==
    [enabled : BOOLEAN, download : BOOLEAN, needs_refresh : BOOLEAN,
     old : BOOLEAN]

\* the error kinds a call of the daemon fails with
MetadataErrors == {"Internal", "InvalidFile"}

MetadataInit ==
    /\ mpc = "start"
    /\ mcmd \in {"get-updates", "refresh"}
    /\ mremotes \in [MetadataRemoteIds -> MetadataRemote]
    /\ mflags \in [no_metadata_check : BOOLEAN, assume_yes : BOOLEAN,
                   force : BOOLEAN]
    /\ mi = 1
    /\ mcnt = 0
    /\ menabled = FALSE
    /\ mfetched = {}
    /\ masked = FALSE
    /\ merr = NoError

\* the command returns FALSE with e
MetadataFails(e) ==
    /\ mpc' = "failed"
    /\ merr' = e

\* fu_util_check_oldest_remote found the metadata of an enabled download
\* remote that needs a refresh to be 30 days old or more
fu_util_check_oldest_remote ==
    \E r \in MetadataRemoteIds :
        /\ mremotes[r].enabled
        /\ mremotes[r].download
        /\ mremotes[r].needs_refresh
        /\ mremotes[r].old

\* fu_util_get_updates calls fu_util_perhaps_refresh_remotes, which goes on
\* to fu_util_download_metadata or returns TRUE; fu_util_refresh without
\* arguments calls fu_util_download_metadata
fu_util_perhaps_refresh_remotes ==
    /\ mpc = "start"
    /\ UNCHANGED notMetadataVars
    /\ IF mcmd = "refresh"
       THEN /\ mpc' = "download"
            /\ UNCHANGED masked
       ELSE IF mflags.no_metadata_check
       THEN /\ mpc' = "checked"
            /\ UNCHANGED masked
       ELSE \/ \* fwupd_client_get_remotes failed
               /\ mpc' = "checked"
               /\ UNCHANGED masked
            \/ IF ~fu_util_check_oldest_remote
               THEN /\ mpc' = "checked"
                    /\ UNCHANGED masked
               ELSE IF mflags.assume_yes
               THEN /\ mpc' = "download"
                    /\ UNCHANGED masked
               ELSE /\ masked' = TRUE
                    /\ mpc' \in {"checked", "download"}
    /\ UNCHANGED <<mcmd, mremotes, mflags, mi, mcnt, menabled, mfetched, merr>>

\* fu_util_download_metadata: the remotes of the daemon
fu_util_download_metadata_begin ==
    /\ mpc = "download"
    /\ UNCHANGED notMetadataVars
    /\ \/ \E k \in MetadataErrors : MetadataFails(Error(k, "get_remotes"))
       \/ /\ mpc' = "loop"
          /\ UNCHANGED merr
    /\ UNCHANGED <<mcmd, mremotes, mflags, mi, mcnt, menabled, mfetched,
                   masked>>

\* fu_util_download_metadata: one turn of the loop over the remotes
fu_util_download_metadata_loop ==
    /\ mpc = "loop"
    /\ mi <= NMetadataRemotes
    /\ UNCHANGED notMetadataVars
    /\ IF ~mremotes[mi].enabled \/ ~mremotes[mi].download
       THEN /\ mi' = mi + 1
            /\ UNCHANGED <<mpc, mcnt, menabled, mfetched, merr>>
       ELSE /\ menabled' = TRUE
            /\ IF ~mflags.force /\ ~mremotes[mi].needs_refresh
               THEN /\ mi' = mi + 1
                    /\ UNCHANGED <<mpc, mcnt, mfetched, merr>>
               ELSE /\ mfetched' = mfetched \cup {mi}
                    /\ \/ /\ \E k \in MetadataErrors :
                               MetadataFails(Error(k, "refresh_remote"))
                          /\ UNCHANGED <<mi, mcnt>>
                       \/ /\ mcnt' = mcnt + 1
                          /\ mi' = mi + 1
                          /\ UNCHANGED <<mpc, merr>>
    /\ UNCHANGED <<mcmd, mremotes, mflags, masked>>

\* fu_util_download_metadata after the loop: fu_util_download_metadata_enable_lvfs
\* when no download remote is enabled, the count of the refreshed remotes,
\* the devices of the daemon and the upload of the reports
fu_util_download_metadata_finish ==
    /\ mpc = "loop"
    /\ mi > NMetadataRemotes
    /\ UNCHANGED notMetadataVars
    /\ LET Rest ==
               IF ~mflags.force /\ mcnt = 0
               THEN MetadataFails(Error("NothingToDo", "Metadata is up to date"))
               ELSE \/ \E k \in MetadataErrors :
                          MetadataFails(Error(k, "get_devices"))
                    \/ \E k \in MetadataErrors :
                          MetadataFails(Error(k, "report_history"))
                    \/ /\ mpc' = "done"
                       /\ UNCHANGED merr
       IN  IF menabled
           THEN /\ Rest
                /\ UNCHANGED <<mremotes, mfetched>>
           ELSE \/ \* no lvfs remote, or the user does not enable it
                   /\ Rest
                   /\ UNCHANGED <<mremotes, mfetched>>
                \/ \E k \in MetadataErrors :
                   /\ MetadataFails(Error(k, "modify_remote"))
                   /\ UNCHANGED <<mremotes, mfetched>>
                \/ \E l \in MetadataRemoteIds :
                   /\ ~mremotes[l].enabled
                   /\ mremotes' = [mremotes EXCEPT ![l].enabled = TRUE]
                   /\ mfetched' = mfetched \cup {l}
                   /\ \/ \E k \in MetadataErrors :
                            MetadataFails(Error(k, "refresh_remote"))
                      \/ Rest
    /\ UNCHANGED <<mcmd, mflags, mi, mcnt, menabled, masked>>

MetadataStep ==
    \/ fu_util_perhaps_refresh_remotes
    \/ fu_util_download_metadata_begin
    \/ fu_util_download_metadata_loop
    \/ fu_util_download_metadata_finish

\* C15: when the metadata of the oldest enabled download remote is older
\* than 30 days, the check of fwupdmgr only warns: the command that made it
\* never fails because of it, whatever the user answers and whether or not
\* the refresh works
C15_StaleMetadataOnlyWarns ==
    (mcmd = "get-updates") => mpc # "failed"

\* ------------------------------------------------------------------------
\* fwupdmgr activate: fu_util_activate of fu-util.c
\* ------------------------------------------------------------------------

\* number of devices the daemon knows
NActivateDevices == 2

ActivateDevices == 1..NActivateDevices

\* what is read of a device: FWUPD_DEVICE_FLAG_NEEDS_ACTIVATION, and whether
\* fwupd_device_match_flags lets it through the filter of the command line
ActivateDevice == [needs_activation : BOOLEAN, match_flags : BOOLEAN]

ActivateInit ==
    /\ apc = "start"
    /\ adevices \in [ActivateDevices -> ActivateDevice]
    /\ avalue \in {0} \cup ActivateDevices
    /\ aselected = <<>>
    /\ ai = 1
    /\ has_pending = FALSE
    /\ activated = {}
    /\ aerr = NoError

\* fu_util_activate: both forms of the arguments, and has_pending
fu_util_activate_mgr_select ==
    /\ apc = "start"
    /\ UNCHANGED notActivateVars
    /\ \/ \E k \in {"InvalidArgs", "NotFound", "Internal"} :
          /\ apc' = "failed"
          /\ aerr' = Error(k, "devices")
          /\ UNCHANGED <<aselected, has_pending>>
       \/ LET devs == IF avalue = 0
                      THEN [i \in ActivateDevices |-> i]
                      ELSE <<avalue>>
              pending == \E i \in DOMAIN devs :
                             adevices[devs[i]].needs_activation
          IN  /\ aselected' = devs
              /\ has_pending' = pending
              /\ IF ~pending
                 THEN /\ apc' = "failed"
                      /\ aerr' = Error("NothingToDo", "No firmware to activate")
                 ELSE /\ apc' = "loop"
                      /\ UNCHANGED aerr
    /\ UNCHANGED <<adevices, avalue, ai, activated>>

\* fu_util_activate: one turn of the loop that activates, and its end
fu_util_activate_mgr_loop ==
    /\ apc = "loop"
    /\ UNCHANGED notActivateVars
    /\ IF ai > Len(aselected)
       THEN /\ apc' = "done"
            /\ UNCHANGED <<ai, activated, aerr>>
       ELSE LET d == aselected[ai]
            IN  IF ~adevices[d].match_flags \/ ~adevices[d].needs_activation
                THEN /\ ai' = ai + 1
                     /\ UNCHANGED <<apc, activated, aerr>>
                ELSE /\ activated' = activated \cup {d}
                     /\ \/ /\ ai' = ai + 1
                           /\ UNCHANGED <<apc, aerr>>
                        \/ /\ apc' = "failed"
                           /\ aerr' = Error("Internal", "activate")
                           /\ UNCHANGED ai
    /\ UNCHANGED <<adevices, avalue, aselected, has_pending>>

ActivateStep ==
    \/ fu_util_activate_mgr_select
    \/ fu_util_activate_mgr_loop

\* C18: activate calls the activation for exactly the selected devices that
\* carry needs-activation and pass the filter, and fails with NothingToDo
\* when there is none
C18_ActivateExactlyPending ==
    LET due == {d \in ActivateDevices :
                   /\ \E i \in DOMAIN aselected : aselected[i] = d
                   /\ adevices[d].needs_activation
                   /\ adevices[d].match_flags}
    IN  /\ activated \subseteq due
        /\ (apc = "done") => (activated = due /\ due # {})

\* ------------------------------------------------------------------------
\* fwupdmgr device-wait: fu_util_device_wait and its two callbacks
\* ------------------------------------------------------------------------

\* g_timeout_source_new_seconds(30)
DeviceWaitSeconds == 30

\* device-added signals for other devices while the command waits
MaxAdded == 2

WaitInit ==
    /\ wpc = "start"
    /\ wvalues \in 0..2
    /\ wtime = 0
    /\ wadded = 0
    /\ helper_device = FALSE
    /\ werr = NoError

\* fu_util_device_wait up to g_main_loop_run
fu_util_device_wait_begin ==
    /\ wpc = "start"
    /\ UNCHANGED notWaitVars
    /\ IF wvalues # 1
       THEN /\ wpc' = "failed"
            /\ werr' = Error("InvalidArgs",
                             "Invalid arguments, expected GUID|DEVICE-ID")
       ELSE /\ wpc' \in {"done", "running"}
            /\ UNCHANGED werr
    /\ UNCHANGED <<wvalues, wtime, wadded, helper_device>>

\* g_main_loop_run: a second goes by
fu_util_device_wait_run ==
    /\ wpc = "running"
    /\ wtime < DeviceWaitSeconds
    /\ UNCHANGED notWaitVars
    /\ wtime' = wtime + 1
    /\ UNCHANGED <<wpc, wvalues, wadded, helper_device, werr>>

\* fu_util_device_wait_added_cb, for a device that matches or for another
fu_util_device_wait_added_cb ==
    /\ wpc = "running"
    /\ UNCHANGED notWaitVars
    /\ \/ /\ helper_device' = TRUE
          /\ wpc' = "quit"
          /\ UNCHANGED wadded
       \/ /\ wadded < MaxAdded
          /\ wadded' = wadded + 1
          /\ UNCHANGED <<wpc, helper_device>>
    /\ UNCHANGED <<wvalues, wtime, werr>>

\* fu_util_device_wait_timeout_cb
fu_util_device_wait_timeout_cb ==
    /\ wpc = "running"
    /\ wtime = DeviceWaitSeconds
    /\ UNCHANGED notWaitVars
    /\ wpc' = "quit"
    /\ UNCHANGED <<wvalues, wtime, wadded, helper_device, werr>>

\* fu_util_device_wait after g_main_loop_run
fu_util_device_wait_finish ==
    /\ wpc = "quit"
    /\ UNCHANGED notWaitVars
    /\ IF ~helper_device
       THEN /\ wpc' = "failed"
            /\ werr' = Error("InvalidArgs", "Stopped waiting for")
       ELSE /\ wpc' = "done"
            /\ UNCHANGED werr
    /\ UNCHANGED <<wvalues, wtime, wadded, helper_device>>

WaitStep ==
    \/ fu_util_device_wait_begin
    \/ fu_util_device_wait_run
    \/ fu_util_device_wait_added_cb
    \/ fu_util_device_wait_timeout_cb
    \/ fu_util_device_wait_finish

\* C19: when the 30 seconds of fwupdmgr device-wait go by and no matching
\* device appeared, the command fails with the error kind Timeout
C19_DeviceWaitTimeout ==
    (wpc = "failed" /\ wtime = DeviceWaitSeconds /\ ~helper_device) =>
        werr.kind = "Timeout"

\* ------------------------------------------------------------------------
\* main of fwupdtool and of fwupdmgr: from the result of the command to the
\* exit code
\* ------------------------------------------------------------------------

EXIT_SUCCESS == 0

EXIT_FAILURE == 1

EXIT_NOTHING_TO_DO == 2

EXIT_NOT_REACHABLE == 3

EXIT_NOT_FOUND == 4

\* the kinds of FWUPD_ERROR a command fails with
FwupdErrors ==
    {"Internal", "VersionNewer", "VersionSame", "AuthFailed", "Read", "Write",
     "InvalidFile", "NotFound", "NothingToDo", "NotSupported",
     "PermissionDenied", "InvalidArgs", "NotReachable", "Timeout"}

ExitInit ==
    /\ xpc = "run"
    /\ xcli \in {"fwupdtool", "fwupdmgr"}
    /\ xret \in BOOLEAN
    /\ xerror \in IF xret THEN {"none"} ELSE FwupdErrors
    /\ xjson \in BOOLEAN
    /\ xcode = -1

\* a main of fwupdtool without the test for NotFound
main_tool_nonotfound(ret, error, as_json) ==
    IF ret THEN EXIT_SUCCESS
    ELSE IF ~as_json /\ error = "InvalidArgs" THEN EXIT_FAILURE
    ELSE IF error = "NothingToDo" THEN EXIT_NOTHING_TO_DO
    ELSE IF error = "NotReachable" THEN EXIT_NOT_REACHABLE
    ELSE EXIT_FAILURE

\* main of fu-tool.c after fu_util_cmd_array_run
main_tool(ret, error, as_json) ==
    IF ret THEN EXIT_SUCCESS
    ELSE IF ~as_json /\ error = "InvalidArgs" THEN EXIT_FAILURE
    ELSE IF error = "NothingToDo" THEN EXIT_NOTHING_TO_DO
    ELSE IF error = "NotReachable" THEN EXIT_NOT_REACHABLE
    ELSE IF error = "NotFound" THEN EXIT_NOT_FOUND
    ELSE EXIT_FAILURE

\* main of fu-util.c after fu_util_cmd_array_run
main_mgr(ret, error, as_json) ==
    IF ret THEN EXIT_SUCCESS
    ELSE IF ~as_json /\ error = "InvalidArgs" THEN EXIT_FAILURE
    ELSE IF error = "NothingToDo" THEN EXIT_NOTHING_TO_DO
    ELSE IF error = "NotReachable" THEN EXIT_NOT_REACHABLE
    ELSE IF error = "NotFound" THEN EXIT_NOT_FOUND
    ELSE EXIT_FAILURE

\* main of fwupdtool returns
main_tool_return ==
    /\ xpc = "run"
    /\ xcli = "fwupdtool"
    /\ UNCHANGED notExitVars
    /\ xcode' = main_tool(xret, xerror, xjson)
    /\ xpc' = "exited"
    /\ UNCHANGED <<xcli, xret, xerror, xjson>>

\* main of fwupdmgr returns
main_mgr_return ==
    /\ xpc = "run"
    /\ xcli = "fwupdmgr"
    /\ UNCHANGED notExitVars
    /\ xcode' = main_mgr(xret, xerror, xjson)
    /\ xpc' = "exited"
    /\ UNCHANGED <<xcli, xret, xerror, xjson>>

ExitStep ==
    \/ main_tool_return
    \/ main_mgr_return

\* C20: for both programs the exit code is 0 exactly when the command
\* succeeded, 2 exactly when it failed with NothingToDo, 3 exactly when it
\* failed with NotReachable, 4 exactly when it failed with NotFound, and 1
\* for every other failure
C20_ExitCodes ==
    (xpc = "exited") =>
        /\ (xcode = 0) <=> xret
        /\ (xcode = 2) <=> (~xret /\ xerror = "NothingToDo")
        /\ (xcode = 3) <=> (~xret /\ xerror = "NotReachable")
        /\ (xcode = 4) <=> (~xret /\ xerror = "NotFound")
        /\ (xcode = 1) <=>
               (~xret /\ xerror \notin {"NothingToDo", "NotReachable", "NotFound"})

\* fwupdtool left with 4 after a command that failed with NotFound and
\* printed JSON
C20_Witness ==
    /\ xpc = "exited"
    /\ xcli = "fwupdtool"
    /\ xjson
    /\ xerror = "NotFound"
    /\ xcode = 4

\* ------------------------------------------------------------------------
\* libfwupdplugin: fu_common_guid_is_plausible
\* ------------------------------------------------------------------------

\* the number of bytes the function reads
GuidSize == 16

\* the number of leading bytes of a buffer that are chosen one by one; the
\* bytes after them all have one value
GuidVarying == 2

\* the byte values the buffers are made of
GuidBytes == {0, 1, 15, 16, 127, 128, 254, 255}

GuidInit ==
    /\ gpc = "call"
    /\ \E head \in [1..GuidVarying -> GuidBytes], fill \in GuidBytes :
           gbuf = [i \in 1..GuidSize |->
                       IF i <= GuidVarying THEN head[i] ELSE fill]
    /\ gret = FALSE

\* a test that wants the sum to be more than 0xff
fu_common_guid_is_plausible_above(buf) ==
    LET sum == SumTo(buf, GuidSize)
    IN  IF sum = 0 THEN FALSE
        ELSE IF sum <= 255 THEN FALSE
        ELSE TRUE

\* fu_common_guid_is_plausible; sum is a guint, which the 16 bytes, adding up
\* to 4080 at most, do not make wrap
fu_common_guid_is_plausible(buf) ==
    LET sum == SumTo(buf, GuidSize)
    IN  IF sum = 0 THEN FALSE
        ELSE IF sum < 255 THEN FALSE
        ELSE TRUE

\* the call
GuidStep ==
    /\ gpc = "call"
    /\ UNCHANGED notGuidVars
    /\ gret' = fu_common_guid_is_plausible(gbuf)
    /\ gpc' = "returned"
    /\ UNCHANGED gbuf

\* C21: 16 bytes are taken as a plausible GUID if and only if they are not
\* all zero and their sum is at least 255
C21_PlausibleGuid ==
    (gpc = "returned") =>
        (gret <=> (/\ \E i \in 1..GuidSize : gbuf[i] # 0
                   /\ SumTo(gbuf, GuidSize) >= 255))

\* a buffer whose bytes add up to exactly 255 was accepted
C21_Witness ==
    /\ gpc = "returned"
    /\ SumTo(gbuf, GuidSize) = 255
    /\ gret


\* ------------------------------------------------------------------------
\* fwupdmgr: fu_util_block_firmware and fu_util_unblock_firmware
\* ------------------------------------------------------------------------

\* number of fwupdmgr invocations that run side by side
NBlockProcs == 2

BlockProcs == 1..NBlockProcs

\* number of firmware checksums
NChecksums == 3

Checksums == 1..NChecksums

\* the lists the daemon can hold: no checksum twice
BlockedLists ==
    {l \in UNION {[1..n -> Checksums] : n \in 0..NChecksums} :
        \A i, j \in DOMAIN l : i # j => l[i] # l[j]}

\* g_strv_contains
g_strv_contains(strv, str) == \E i \in DOMAIN strv : strv[i] = str

\* the loop that copies every checksum other than csum
BlockCopyWithout(csums, csum) == SelectSeq(csums, LAMBDA c : c # csum)

BlockInit ==
    /\ bkpc = [p \in BlockProcs |-> "start"]
    /\ bkop \in [BlockProcs -> {"block", "unblock"}]
    /\ bkcsum \in {f \in [BlockProcs -> Checksums] :
                      \A p, q \in BlockProcs : p # q => f[p] # f[q]}
    /\ bknew = [p \in BlockProcs |-> <<>>]
    /\ bkerr = [p \in BlockProcs |-> NoError]
    /\ blocked \in BlockedLists

\* the command of invocation p returned FALSE with e
BlockFails(p, e) ==
    /\ bkpc' = [bkpc EXCEPT ![p] = "failed"]
    /\ bkerr' = [bkerr EXCEPT ![p] = e]

\* fu_util_block_firmware up to the call of fwupd_client_set_blocked_firmware
fu_util_block_firmware_get(p) ==
    /\ bkpc[p] = "start"
    /\ bkop[p] = "block"
    /\ UNCHANGED notBlockVars
    /\ \/ /\ BlockFails(p, Error("Internal", "get_blocked_firmware"))
          /\ UNCHANGED bknew
       \/ LET csums == blocked
              csum == bkcsum[p]
          IN  IF g_strv_contains(csums, csum)
              THEN /\ BlockFails(p, Error("NothingToDo",
                                          "Firmware is already blocked"))
                   /\ UNCHANGED bknew
              ELSE /\ bknew' = [bknew EXCEPT ![p] =
                                   Append(BlockCopyWithout(csums, csum), csum)]
                   /\ bkpc' = [bkpc EXCEPT ![p] = "set"]
                   /\ UNCHANGED bkerr
    /\ UNCHANGED <<bkop, bkcsum, blocked>>

\* fu_util_unblock_firmware up to the call of
\* fwupd_client_set_blocked_firmware
fu_util_unblock_firmware_get(p) ==
    /\ bkpc[p] = "start"
    /\ bkop[p] = "unblock"
    /\ UNCHANGED notBlockVars
    /\ \/ /\ BlockFails(p, Error("Internal", "get_blocked_firmware"))
          /\ UNCHANGED bknew
       \/ LET csums == blocked
              csum == bkcsum[p]
          IN  IF Len(csums) = 0
              THEN /\ BlockFails(p, Error("NothingToDo",
                                          "There are no blocked firmware files"))
                   /\ UNCHANGED bknew
              ELSE IF ~g_strv_contains(csums, csum)
              THEN /\ BlockFails(p, Error("NothingToDo",
                                          "Firmware is not already blocked"))
                   /\ UNCHANGED bknew
              ELSE /\ bknew' = [bknew EXCEPT ![p] = BlockCopyWithout(csums, csum)]
                   /\ bkpc' = [bkpc EXCEPT ![p] = "set"]
                   /\ UNCHANGED bkerr
    /\ UNCHANGED <<bkop, bkcsum, blocked>>

\* the call of fwupd_client_set_blocked_firmware that ends both commands
fwupd_client_set_blocked_firmware(p) ==
    /\ bkpc[p] = "set"
    /\ UNCHANGED notBlockVars
    /\ \/ /\ BlockFails(p, Error("Internal", "set_blocked_firmware"))
          /\ UNCHANGED blocked
       \/ /\ blocked' = bknew[p]
          /\ bkpc' = [bkpc EXCEPT ![p] = "done"]
          /\ UNCHANGED bkerr
    /\ UNCHANGED <<bkop, bkcsum, bknew>>

BlockStep ==
    \E p \in BlockProcs :
        \/ fu_util_block_firmware_get(p)
        \/ fu_util_unblock_firmware_get(p)
        \/ fwupd_client_set_blocked_firmware(p)

\* C27: two fwupdmgr invocations that change the blocked-firmware list for
\* different checksums at the same time both take effect: the list holds the
\* checksum of every block that returned success and not the checksum of any
\* unblock that returned success.
C27_NoLostBlockedFirmwareUpdate ==
    \A p \in BlockProcs :
        bkpc[p] = "done" =>
            (g_strv_contains(blocked, bkcsum[p]) <=> bkop[p] = "block")


\* ------------------------------------------------------------------------
\* fwupdmgr: fu_util_inhibit, fu_util_inhibit_timeout_cb,
\* fu_util_cancelled_cb
\* ------------------------------------------------------------------------

\* the longest timeout given, in milliseconds
MaxTimeoutMs == 3

\* number of inhibit IDs the daemon hands out
NInhibitIds == 3

InhibitIds == 1..NInhibitIds

\* the arguments: none, a reason, or a reason and a timeout; a timeout of -1
\* stands for text that fu_strtoull turns down
InhibitValues ==
    {[n |-> k, timeout |-> 0] : k \in 0..1}
      \cup {[n |-> 2, timeout |-> t] : t \in -1..MaxTimeoutMs}

InhibitInit ==
    /\ ipc = "start"
    /\ ivalues \in InhibitValues
    /\ itimeout_ms = 0
    /\ itime = 0
    /\ inhibit_id = 0
    /\ iheld = {}
    /\ icalls = {}
    /\ ierr = NoError

\* fu_util_inhibit up to g_main_loop_run
fu_util_inhibit_begin ==
    /\ ipc = "start"
    /\ UNCHANGED notInhibitVars
    /\ IF ivalues.n > 1 /\ ivalues.timeout < 0
       THEN /\ ipc' = "failed"
            /\ ierr' = Error("InvalidData", "fu_strtoull")
            /\ UNCHANGED <<itimeout_ms, inhibit_id, iheld>>
       ELSE /\ itimeout_ms' = IF ivalues.n > 1 THEN ivalues.timeout ELSE 0
            /\ \/ \* fwupd_client_inhibit returned NULL
                  /\ ipc' = "failed"
                  /\ ierr' = Error("Internal", "inhibit")
                  /\ UNCHANGED <<inhibit_id, iheld>>
               \/ \E id \in InhibitIds :
                  /\ inhibit_id' = id
                  /\ iheld' = iheld \cup {id}
                  /\ ipc' = "loop"
                  /\ UNCHANGED ierr
    /\ UNCHANGED <<ivalues, itime, icalls>>

\* a millisecond passes while the main loop runs
InhibitTick ==
    /\ ipc = "loop"
    /\ itime < MaxTimeoutMs
    /\ itimeout_ms > 0 => itime < itimeout_ms
    /\ UNCHANGED notInhibitVars
    /\ itime' = itime + 1
    /\ UNCHANGED <<ipc, ivalues, itimeout_ms, inhibit_id, iheld, icalls, ierr>>

\* fu_util_inhibit_timeout_cb: the source fires once timeout_ms have passed;
\* a failure of fwupd_client_uninhibit is only warned about
fu_util_inhibit_timeout_cb ==
    /\ ipc = "loop"
    /\ itimeout_ms > 0
    /\ itime = itimeout_ms
    /\ UNCHANGED notInhibitVars
    /\ icalls' = icalls \cup {inhibit_id}
    /\ \/ iheld' = iheld \ {inhibit_id}
       \/ UNCHANGED iheld
    /\ ipc' = "quit"
    /\ UNCHANGED <<ivalues, itimeout_ms, itime, inhibit_id, ierr>>

\* fu_util_cancelled_cb while the main loop is running
fu_util_cancelled_cb ==
    /\ ipc = "loop"
    /\ UNCHANGED notInhibitVars
    /\ ipc' = "quit"
    /\ UNCHANGED <<ivalues, itimeout_ms, itime, inhibit_id, iheld, icalls, ierr>>

\* fu_util_inhibit after g_main_loop_run
fu_util_inhibit_finish ==
    /\ ipc = "quit"
    /\ UNCHANGED notInhibitVars
    /\ ipc' = "returned"
    /\ UNCHANGED <<ivalues, itimeout_ms, itime, inhibit_id, iheld, icalls, ierr>>

InhibitStep ==
    \/ fu_util_inhibit_begin
    \/ InhibitTick
    \/ fu_util_inhibit_timeout_cb
    \/ fu_util_cancelled_cb
    \/ fu_util_inhibit_finish

\* C28: every inhibit the fwupdmgr inhibit command acquired is released by an
\* uninhibit call before the command returns, when the timeout fires and
\* when Ctrl-C ends the wait.
C28_InhibitReleasedBeforeReturn ==
    (ipc = "returned") => /\ inhibit_id \in icalls
                          /\ inhibit_id \notin iheld


\* ------------------------------------------------------------------------
\* logitech-hidpp: fu_logitech_hidpp_bootloader_parse_requests
\* ------------------------------------------------------------------------

\* the most lines a firmware has
MaxLines == 3

\* the addresses the records carry
LogitechAddrs == {0, 1, 2}

\* the lines of a firmware by what the parser does with them: a line shorter
\* than 5 characters, a length above 28, an address that is not hex, a data
\* record (0x00) with all or too few of its bytes, EOF (0x01), start segment
\* address (0x03), extended linear address (0x04) with offset 0 or another
\* offset, start linear address (0x05), signature (0xFD), any other type
LogitechLines ==
    {[kind |-> k, addr |-> 0] :
        k \in {"short", "too-large", "bad-addr", "data-truncated", "eof",
               "start-segment", "ext-linear", "ext-linear-offset",
               "start-linear", "unsupported"}}
      \cup {[kind |-> k, addr |-> a] :
               k \in {"data", "signature"}, a \in LogitechAddrs}

\* a request: FU_LOGITECH_HIDPP_BOOTLOADER_CMD_WRITE_RAM_BUFFER or
\* FU_LOGITECH_HIDPP_BOOTLOADER_CMD_WRITE_SIGNATURE, and the address
LogitechRequest(c, addr) == [cmd |-> c, addr |-> addr]

LogitechInit ==
    /\ lgpc = "loop"
    /\ lglines \in UNION {[1..n -> LogitechLines] : n \in 1..MaxLines}
    /\ lgi = 1
    /\ reqs = <<>>
    /\ last_addr = 0
    /\ flash_addr \in {[lo |-> 0, hi |-> 2], [lo |-> 1, hi |-> 2],
                       [lo |-> 1, hi |-> 1]}
    /\ lgerr = NoError

\* a test that lets addresses go down
fu_logitech_hidpp_bootloader_parse_requests_keeps_any(addr, last, flash) ==
    /\ ~(addr > flash.hi)
    /\ ~(addr < flash.lo)

\* the three tests a data record passes before it is added: not in the
\* bootloader, not in the header, not below the last address
fu_logitech_hidpp_bootloader_parse_requests_keeps(addr, last, flash) ==
    /\ ~(addr > flash.hi)
    /\ ~(addr < flash.lo)
    /\ ~(addr < last)

\* the call returns NULL with an InvalidData error
LogitechFails(text) ==
    /\ lgpc' = "failed"
    /\ lgerr' = Error("InvalidData", text)
    /\ UNCHANGED <<lgi, reqs, last_addr>>

\* the loop goes on with the next line
LogitechContinue ==
    /\ lgi' = lgi + 1
    /\ UNCHANGED <<lgpc, lgerr>>

\* the loop is over: the list, unless it is empty
LogitechReturn ==
    /\ IF Len(reqs) = 0
       THEN /\ lgpc' = "failed"
            /\ lgerr' = Error("InvalidData", "firmware data invalid: no payloads found")
       ELSE /\ lgpc' = "returned"
            /\ UNCHANGED lgerr
    /\ UNCHANGED <<lgi, reqs, last_addr>>

\* fu_logitech_hidpp_bootloader_parse_requests: one turn of the loop over the
\* lines, and what follows the loop
fu_logitech_hidpp_bootloader_parse_requests ==
    /\ lgpc = "loop"
    /\ UNCHANGED notLogitechVars
    /\ IF lgi > Len(lglines)
       THEN LogitechReturn
       ELSE LET line == lglines[lgi]
            IN  CASE line.kind \in {"short", "start-segment", "ext-linear",
                                    "start-linear"} ->
                       /\ LogitechContinue
                       /\ UNCHANGED <<reqs, last_addr>>
                  [] line.kind = "too-large" ->
                       LogitechFails("firmware data invalid: too large")
                  [] line.kind = "bad-addr" ->
                       LogitechFails("strparse")
                  [] line.kind = "ext-linear-offset" ->
                       LogitechFails("extended linear addresses")
                  [] line.kind = "unsupported" ->
                       LogitechFails("intel hex file record type not supported")
                  [] line.kind = "eof" ->
                       LogitechReturn
                  [] line.kind = "data-truncated" ->
                       LogitechFails("firmware data invalid: expected bytes")
                  [] line.kind = "signature" ->
                       /\ reqs' = Append(reqs, LogitechRequest("write-signature",
                                                               line.addr))
                       /\ LogitechContinue
                       /\ UNCHANGED last_addr
                  [] line.kind = "data" ->
                       /\ LogitechContinue
                       /\ IF fu_logitech_hidpp_bootloader_parse_requests_keeps(
                                 line.addr, last_addr, flash_addr)
                          THEN /\ last_addr' = line.addr
                               /\ reqs' = Append(reqs,
                                              LogitechRequest("write-ram-buffer",
                                                              line.addr))
                          ELSE UNCHANGED <<reqs, last_addr>>
    /\ UNCHANGED <<lglines, flash_addr>>

LogitechStep == fu_logitech_hidpp_bootloader_parse_requests

\* C29: in the list fu_logitech_hidpp_bootloader_parse_requests builds and
\* returns, the data-write requests have non-decreasing addresses: of any two
\* of them the earlier one has an address less than or equal to the later one.
C29_DataWritesNonDecreasing ==
    \A i, j \in DOMAIN reqs :
        (/\ i < j
         /\ reqs[i].cmd = "write-ram-buffer"
         /\ reqs[j].cmd = "write-ram-buffer") => reqs[i].addr <= reqs[j].addr

\* the list was returned with two data writes, a record between them in the
\* firmware having been dropped for going backwards
C29_Witness ==
    /\ lgpc = "returned"
    /\ Len(lglines) = 3
    /\ \A i \in 1..3 : lglines[i].kind = "data"
    /\ lglines[2].addr < lglines[1].addr
    /\ lglines[2].addr >= flash_addr.lo
    /\ reqs = <<LogitechRequest("write-ram-buffer", lglines[1].addr),
                LogitechRequest("write-ram-buffer", lglines[3].addr)>>

\* ------------------------------------------------------------------------
\* Specifications
\* ------------------------------------------------------------------------

\* the idle values of each part
LockOff ==
    /\ cmd = [p \in Procs |-> "none"]
    /\ pc = [p \in Procs |-> "exited"]
    /\ lock_fd = [p \in Procs |-> "closed"]
    /\ wrlck = [p \in Procs |-> FALSE]
    /\ loaded = [p \in Procs |-> FALSE]
    /\ err = [p \in Procs |-> NoError]
    /\ lockBusy = [p \in Procs |-> FALSE]
    /\ histAccess = [p \in Procs |-> "none"]
    /\ needsActivation = FALSE

BlobOff ==
    /\ bpc = "off"
    /\ plugin = "fresco-pd"
    /\ prepare_blob = FALSE
    /\ cleanup_blob = FALSE
    /\ berr = NoError
    /\ prepared = FALSE
    /\ cleanedUp = FALSE
    /\ updateMode = FALSE
    /\ unplugged = FALSE
    /\ waitForReplug = FALSE
    /\ attachCalled = FALSE
    /\ writeFailed = FALSE
    /\ ispLog = <<>>
    /\ chunk = 0
    /\ tries = 0
    /\ lastDetach = "none"
    /\ detachStatus = "unread"
    /\ retriedAfterTransport = FALSE
    /\ resetIo = "none"
    /\ resetWritten = FALSE
    /\ progSteps = <<>>
    /\ progDone = 0
    /\ progChild = 0

RefreshOff ==
    /\ rpc = "off"
    /\ remotes = <<>>
    /\ rforce = FALSE
    /\ ri = 1
    /\ rlog = <<>>
    /\ rerr = NoError
    /\ applied = {}

StreamOff ==
    /\ spc = "off"
    /\ si = 1
    /\ sj = 1
    /\ priority = <<>>
    /\ releases = <<>>
    /\ errors = <<>>
    /\ loadOk = {}
    /\ reqOk = {}
    /\ installCalled = FALSE
    /\ installed = <<>>
    /\ serr = NoError

BranchOff ==
    /\ sbpc = "off"
    /\ sbcli = "fwupdtool"
    /\ sbdevices = <<>>
    /\ sbvalues = NoValues
    /\ sbdev = 0
    /\ sbbranch = "none"
    /\ sbflags = {}
    /\ sbinstalled = FALSE
    /\ sberr = NoError

UpdateOff ==
    /\ upc = "off"
    /\ ui = 1
    /\ udev = [updatable |-> FALSE]
    /\ rootPct = -1
    /\ rootLog = <<>>
    /\ uoutcome = <<>>
    /\ uerr = NoError

ReportOff ==
    /\ rppc = "off"
    /\ rprel = 0
    /\ rpremotes = <<>>
    /\ rpflags = [assume_yes |-> FALSE, force |-> FALSE]
    /\ rponly = FALSE
    /\ rpi = 1
    /\ rpcnt = 0
    /\ rpupload = [remote |-> 0, from |-> "none"]
    /\ rpprompts = {}
    /\ rpuploads = {}
    /\ rpdevices = <<>>
    /\ rpincluded = {}
    /\ rpreported = {}
    /\ rperr = NoError

MetadataOff ==
    /\ mpc = "off"
    /\ mcmd = "none"
    /\ mremotes = <<>>
    /\ mflags = [no_metadata_check |-> FALSE, assume_yes |-> FALSE,
                 force |-> FALSE]
    /\ mi = 1
    /\ mcnt = 0
    /\ menabled = FALSE
    /\ mfetched = {}
    /\ masked = FALSE
    /\ merr = NoError

ActivateOff ==
    /\ apc = "off"
    /\ adevices = <<>>
    /\ avalue = 0
    /\ aselected = <<>>
    /\ ai = 1
    /\ has_pending = FALSE
    /\ activated = {}
    /\ aerr = NoError

WaitOff ==
    /\ wpc = "off"
    /\ wvalues = 0
    /\ wtime = 0
    /\ wadded = 0
    /\ helper_device = FALSE
    /\ werr = NoError

ExitOff ==
    /\ xpc = "off"
    /\ xcli = "none"
    /\ xret = FALSE
    /\ xerror = "none"
    /\ xjson = FALSE
    /\ xcode = -1

GuidOff ==
    /\ gpc = "off"
    /\ gbuf = <<>>
    /\ gret = FALSE

BlockOff ==
    /\ bkpc = <<>>
    /\ bkop = <<>>
    /\ bkcsum = <<>>
    /\ bknew = <<>>
    /\ bkerr = <<>>
    /\ blocked = <<>>

InhibitOff ==
    /\ ipc = "off"
    /\ ivalues = [n |-> 0, timeout |-> 0]
    /\ itimeout_ms = 0
    /\ itime = 0
    /\ inhibit_id = 0
    /\ iheld = {}
    /\ icalls = {}
    /\ ierr = NoError

LogitechOff ==
    /\ lgpc = "off"
    /\ lglines = <<>>
    /\ lgi = 1
    /\ reqs = <<>>
    /\ last_addr = 0
    /\ flash_addr = [lo |-> 0, hi |-> 0]
    /\ lgerr = NoError

\* the parts other than the five above, idle
MoreOff ==
    UpdateOff /\ ReportOff /\ MetadataOff /\ ActivateOff /\ WaitOff
    /\ ExitOff /\ GuidOff /\ BlockOff /\ InhibitOff /\ LogitechOff

\* fwupdtool processes that share the lock file and the history database
InitLock == LockInit /\ BlobOff /\ RefreshOff /\ StreamOff /\ BranchOff /\ MoreOff

NextLock == LockStep

SpecLock == InitLock /\ [][NextLock]_vars

\* fwupdtool install-blob on a fresco-pd or rts54hub foreground device
InitBlob == BlobInit /\ LockOff /\ RefreshOff /\ StreamOff /\ BranchOff /\ MoreOff

NextBlob == BlobStep

SpecBlob == InitBlob /\ [][NextBlob]_vars

\* fwupdtool refresh over the remotes of the engine
InitRefresh == RefreshInit /\ LockOff /\ BlobOff /\ StreamOff /\ BranchOff /\ MoreOff

NextRefresh == RefreshStep

SpecRefresh == InitRefresh /\ [][NextRefresh]_vars

\* fwupdtool install of one cabinet on the devices passed in
InitStream == StreamInit /\ LockOff /\ BlobOff /\ RefreshOff /\ BranchOff /\ MoreOff

NextStream == StreamStep

SpecStream == InitStream /\ [][NextStream]_vars

\* switch-branch of either command line tool
InitBranch == BranchInit /\ LockOff /\ BlobOff /\ RefreshOff /\ StreamOff /\ MoreOff

NextBranch == BranchStep

SpecBranch == InitBranch /\ [][NextBranch]_vars

\* the first five parts, idle
FirstOff == LockOff /\ BlobOff /\ RefreshOff /\ StreamOff /\ BranchOff

\* fwupdtool update over the devices of the engine
InitUpdate ==
    /\ UpdateInit /\ FirstOff /\ ReportOff /\ MetadataOff /\ ActivateOff
    /\ WaitOff /\ ExitOff /\ GuidOff /\ BlockOff /\ InhibitOff /\ LogitechOff

NextUpdate == UpdateStep

SpecUpdate == InitUpdate /\ [][NextUpdate]_vars

\* fwupdmgr sending the reports after an install
InitReport ==
    /\ ReportInit /\ FirstOff /\ UpdateOff /\ MetadataOff /\ ActivateOff
    /\ WaitOff /\ ExitOff /\ GuidOff /\ BlockOff /\ InhibitOff /\ LogitechOff

NextReport == ReportStep

SpecReport == InitReport /\ [][NextReport]_vars

\* fwupdmgr get-updates up to the end of its metadata check, and fwupdmgr
\* refresh without arguments
InitMetadata ==
    /\ MetadataInit /\ FirstOff /\ UpdateOff /\ ReportOff /\ ActivateOff
    /\ WaitOff /\ ExitOff /\ GuidOff /\ BlockOff /\ InhibitOff /\ LogitechOff

NextMetadata == MetadataStep

SpecMetadata == InitMetadata /\ [][NextMetadata]_vars

\* fwupdmgr activate
InitActivate ==
    /\ ActivateInit /\ FirstOff /\ UpdateOff /\ ReportOff /\ MetadataOff
    /\ WaitOff /\ ExitOff /\ GuidOff /\ BlockOff /\ InhibitOff /\ LogitechOff

NextActivate == ActivateStep

SpecActivate == InitActivate /\ [][NextActivate]_vars

\* fwupdmgr device-wait
InitWait ==
    /\ WaitInit /\ FirstOff /\ UpdateOff /\ ReportOff /\ MetadataOff
    /\ ActivateOff /\ ExitOff /\ GuidOff /\ BlockOff /\ InhibitOff
    /\ LogitechOff

NextWait == WaitStep

SpecWait == InitWait /\ [][NextWait]_vars

\* main of both programs after the command
InitExit ==
    /\ ExitInit /\ FirstOff /\ UpdateOff /\ ReportOff /\ MetadataOff
    /\ ActivateOff /\ WaitOff /\ GuidOff /\ BlockOff /\ InhibitOff
    /\ LogitechOff

NextExit == ExitStep

SpecExit == InitExit /\ [][NextExit]_vars

\* fu_common_guid_is_plausible on one buffer
InitGuid ==
    /\ GuidInit /\ FirstOff /\ UpdateOff /\ ReportOff /\ MetadataOff
    /\ ActivateOff /\ WaitOff /\ ExitOff /\ BlockOff /\ InhibitOff
    /\ LogitechOff

NextGuid == GuidStep

SpecGuid == InitGuid /\ [][NextGuid]_vars

\* fwupdmgr block-firmware and unblock-firmware invocations against one daemon
InitBlock ==
    /\ BlockInit /\ FirstOff /\ UpdateOff /\ ReportOff /\ MetadataOff
    /\ ActivateOff /\ WaitOff /\ ExitOff /\ GuidOff /\ InhibitOff
    /\ LogitechOff

NextBlock == BlockStep

SpecBlock == InitBlock /\ [][NextBlock]_vars

\* one fwupdmgr inhibit command, its timeout and its cancellation
InitInhibit ==
    /\ InhibitInit /\ FirstOff /\ UpdateOff /\ ReportOff /\ MetadataOff
    /\ ActivateOff /\ WaitOff /\ ExitOff /\ GuidOff /\ BlockOff /\ LogitechOff

NextInhibit == InhibitStep

SpecInhibit == InitInhibit /\ [][NextInhibit]_vars

\* fu_logitech_hidpp_bootloader_parse_requests on one firmware
InitLogitech ==
    /\ LogitechInit /\ FirstOff /\ UpdateOff /\ ReportOff /\ MetadataOff
    /\ ActivateOff /\ WaitOff /\ ExitOff /\ GuidOff /\ BlockOff /\ InhibitOff

NextLogitech == LogitechStep

SpecLogitech == InitLogitech /\ [][NextLogitech]_vars

====
